---- MODULE Spec2Model ----
(***************************************************************************)
(* A model of the Facebook Ads analytics dashboard:                        *)
(*   - database.py      DatabaseManager   (four replace-on-write tables)   *)
(*   - facebook_api.py  FacebookAPI       (cursor pagination, fallbacks)   *)
(*   - gemini_query.py  GeminiQueryEngine (classifier, SQL cleaning,       *)
(*                                         SELECT guard, narration)        *)
(*   - app.py           the sidebar actions (account id, fetch, load)      *)
(* Texts are sequences of one-character strings, so that lower(), upper(), *)
(* strip(), startswith(), `in' and re.sub() are computed, not assumed.     *)
(* Each component has its own specification over the shared variables:     *)
(*   SpecStore, SpecFetch, SpecQuery, SpecClassify, SpecClean, SpecApp,    *)
(*   SpecCalls, SpecIds.                                                   *)
(***************************************************************************)
EXTENDS Integers, Sequences, FiniteSets, TLC

VARIABLES
    db,            \* database.py: the four tables, name -> [columns, rows]
    lastStored,    \* name -> the most recent store_<name> call: [ok, list, dropped]
    got,           \* the last get_<name> call: [entity, rows, available], or NoCall
    pc,            \* facebook_api.py: where the running fetch_<entity> call is
    entity,        \* the entity type being fetched
    script,        \* the responses the remote API gives to this fetch's requests
    nreq,          \* _make_request calls issued by this fetch so far
    response,      \* _paginate_request: the local 'response'
    allData,       \* _paginate_request: the local 'all_data'
    trace,         \* the requests and sleeps of this fetch, in order
    fetchResult,   \* what fetch_<entity> returned
    hasModel,      \* gemini_query.py: self.model exists (GEMINI_API_KEY was set)
    userQuery,     \* the question given to process_query / _is_analytical_query
    classified,    \* the branch taken for it: "analytical", "lookup", or "none"
    generated,     \* what _generate_sql_query returned (None, or the statement)
    result,        \* the dict process_query returned
    calls,         \* the LLM and database calls process_query made, in order
    responseText,  \* the text given to _clean_sql_response
    cleaned,       \* what _clean_sql_response returned for it
    session,       \* app.py: st.session_state
    action         \* app.py: the last user action main() handled, and what it did

storeVars == <<db, lastStored, got>>

fetchVars == <<pc, entity, script, nreq, response, allData, trace, fetchResult>>

queryVars == <<hasModel, userQuery, classified, generated, result, calls>>

cleanVars == <<responseText, cleaned>>

appVars == <<session, action>>

\* what a fetch_<entity> call leaves alone
notFetchVars == <<storeVars, queryVars, cleanVars, appVars>>

\* what a DatabaseManager call leaves alone
notStoreVars == <<fetchVars, queryVars, cleanVars, appVars>>

\* what a process_query call leaves alone
notQueryVars == <<storeVars, fetchVars, cleanVars, appVars>>

vars == <<db, lastStored, got, pc, entity, script, nreq, response, allData, trace,
          fetchResult, hasModel, userQuery, classified, generated, result, calls,
          responseText, cleaned, session, action>>

(***************************************************************************)
(* Values                                                                  *)
(***************************************************************************)
\* Python's None and a value that is not None
None == <<>>

Some(x) == <<x>>

NoCall == [entity |-> "none", rows |-> <<>>, available |-> FALSE]

\* the four tables of DatabaseManager._define_tables
EntityTypes == {"campaigns", "adsets", "ads", "insights"}

\* a timestamp the API did not give or that did not parse (None, SQL NULL)
NoTime == 0

\* raw records as the remote API returns them: an id (campaign_id for an
\* insight) and a timestamp (created_time; date_start for an insight)
RawA == [id |-> "1", time |-> 1]
RawB == [id |-> "2", time |-> 2]
RawC == [id |-> "3", time |-> NoTime]
RawD == [id |-> "1", time |-> 2]

RawRecords == {RawA, RawB, RawC, RawD}

\* the 'data' of a sample record: {}
EmptyData == [id |-> "", time |-> NoTime]

\* datetime.now(), in days
Now == 100

(***************************************************************************)
(* Sequence helpers                                                        *)
(***************************************************************************)
RECURSIVE Flatten(_)
Flatten(ss) == IF ss = <<>> THEN <<>> ELSE Head(ss) \o Flatten(Tail(ss))

\* the number of positions of s that hold x
Count(s, x) == Cardinality({i \in 1..Len(s) : s[i] = x})

\* s and t hold the same records the same number of times
SameRecords(s, t) ==
    /\ Len(s) = Len(t)
    /\ \A i \in 1..Len(s) : Count(s, s[i]) = Count(t, s[i])

(***************************************************************************)
(* Texts: a Python str is the sequence of its characters                   *)
(***************************************************************************)
\* the backtick character, which a TLA+ string cannot hold
Backtick == "backtick"

UpperLetters == <<"A", "B", "C", "D", "E", "F", "G", "H", "I", "J", "K", "L", "M", "N", "O", "P", "Q", "R", "S", "T", "U", "V", "W", "X", "Y", "Z">>

LowerLetters == <<"a", "b", "c", "d", "e", "f", "g", "h", "i", "j", "k", "l", "m", "n", "o", "p", "q", "r", "s", "t", "u", "v", "w", "x", "y", "z">>

IsUpperLetter(c) == \E i \in 1..Len(UpperLetters) : UpperLetters[i] = c

IsLowerLetter(c) == \E i \in 1..Len(LowerLetters) : LowerLetters[i] = c

LetterIndex(letters, c) == CHOOSE i \in 1..Len(letters) : letters[i] = c

\* str.lower() and str.upper(), character by character
LowerChar(c) == IF IsUpperLetter(c) THEN LowerLetters[LetterIndex(UpperLetters, c)] ELSE c

UpperChar(c) == IF IsLowerLetter(c) THEN UpperLetters[LetterIndex(LowerLetters, c)] ELSE c

Lower(s) == [i \in 1..Len(s) |-> LowerChar(s[i])]

Upper(s) == [i \in 1..Len(s) |-> UpperChar(s[i])]

\* the characters str.strip() removes
IsSpace(c) == c \in {" ", "\n", "\t", "\r"}

RECURSIVE LStrip(_)
LStrip(s) == IF s # <<>> /\ IsSpace(Head(s)) THEN LStrip(Tail(s)) ELSE s

RECURSIVE RStrip(_)
RStrip(s) == IF s # <<>> /\ IsSpace(s[Len(s)]) THEN RStrip(SubSeq(s, 1, Len(s) - 1)) ELSE s

\* str.strip()
Strip(s) == RStrip(LStrip(s))

\* str.startswith(p), str.endswith(p)
StartsWith(s, p) == Len(s) >= Len(p) /\ SubSeq(s, 1, Len(p)) = p

EndsWith(s, p) == Len(s) >= Len(p) /\ SubSeq(s, Len(s) - Len(p) + 1, Len(s)) = p

\* "k in s" for strings
Contains(s, k) == \E i \in 1..(Len(s) - Len(k) + 1) : SubSeq(s, i, i + Len(k) - 1) = k

\* re.sub(pat + r'\n?', '', s) for a literal pat: scanning from the left, every
\* occurrence of pat and a newline directly after it are dropped
RECURSIVE ReSubWithNewline(_, _)
ReSubWithNewline(pat, s) ==
    IF s = <<>> THEN <<>>
    ELSE IF StartsWith(s, pat)
        THEN LET rest == SubSeq(s, Len(pat) + 1, Len(s)) IN
             ReSubWithNewline(pat, IF rest # <<>> /\ Head(rest) = "\n" THEN Tail(rest) ELSE rest)
        ELSE <<Head(s)>> \o ReSubWithNewline(pat, Tail(s))

\* every way to write the letters of s in upper or lower case
RECURSIVE CaseVariants(_)
CaseVariants(s) ==
    IF s = <<>> THEN {<<>>}
    ELSE {<<c>> \o t : c \in {LowerChar(Head(s)), UpperChar(Head(s))}, t \in CaseVariants(Tail(s))}

(***************************************************************************)
(* facebook_api.py: the records fetch_<entity> returns                     *)
(***************************************************************************)
\* str(n) for a natural number n
DecimalDigits == <<"0", "1", "2", "3", "4", "5", "6", "7", "8", "9">>

RECURSIVE Decimal(_)
Decimal(n) ==
    IF n < 10 THEN <<DecimalDigits[n + 1]>>
    ELSE Decimal(n \div 10) \o <<DecimalDigits[(n % 10) + 1]>>

\* mutant: the id is built from the campaign id and the date alone
InsightId_NoPosition(campaign_id, date_start, n) == campaign_id \o <<"-">> \o date_start

\* line 241: f"{campaign_id}-{date_start}-{len(processed_insights)}"
InsightId(campaign_id, date_start, n) ==
    campaign_id \o <<"-">> \o date_start \o <<"-">> \o Decimal(n)

\* insight.get('date_start', ''): the date as the API wrote it, '' when absent
DateText(time) == IF time = NoTime THEN <<>> ELSE Decimal(time)

\* the synthetic id of the pos-th raw insight record
SyntheticId(raw, pos) == InsightId(<<raw.id>>, DateText(raw.time), pos)

\* lines 238-241: the ids of a list of raw insights, each a campaign_id and a
\* date_start
InsightIds(insights) ==
    [i \in 1..Len(insights) |->
        InsightId(insights[i].campaign_id, insights[i].date_start, i - 1)]

\* the loop body of fetch_campaigns / fetch_adsets / fetch_ads / fetch_insights
ProcessRecord(e, raw, pos) ==
    [id   |-> IF e = "insights" THEN SyntheticId(raw, pos) ELSE <<raw.id>>,
     time |-> raw.time,
     data |-> raw]

\* "for x in xs: processed.append({...})": one record per raw record, in order
Process(e, raws) == [i \in 1..Len(raws) |-> ProcessRecord(e, raws[i], i - 1)]

SampleInsightDays == 30

SampleRecord(id, age) == [id |-> id, time |-> Now - age, data |-> EmptyData]

\* _get_sample_insights: two records for each of the last 30 days
SampleInsights ==
    [k \in 1..(2 * SampleInsightDays) |->
        SampleRecord(<<"insight", (k - 1) \div 2, 2 - (k % 2)>>, (k - 1) \div 2)]

\* _get_sample_campaigns, _get_sample_adsets, _get_sample_ads, _get_sample_insights
Sample(e) ==
    CASE e = "campaigns" -> <<SampleRecord(<<"camp_001">>, 30), SampleRecord(<<"camp_002">>, 20)>>
      [] e = "adsets"    -> <<SampleRecord(<<"adset_001">>, 30), SampleRecord(<<"adset_002">>, 30)>>
      [] e = "ads"       -> <<SampleRecord(<<"ad_001">>, 30), SampleRecord(<<"ad_002">>, 30)>>
      [] e = "insights"  -> SampleInsights

(***************************************************************************)
(* facebook_api.py: FacebookAPI._paginate_request and fetch_<entity>       *)
(***************************************************************************)
\* A response of the remote API to one GET. ok: the request did not raise
\* (raise_for_status, connection). hasData: the JSON has a 'data' key. next:
\* "none" (no paging.next), "after" (paging.next is a URL with a non-empty
\* after= parameter), "noafter" (paging.next is a URL without one).
PageResponse(data, next) == [ok |-> TRUE, hasData |-> TRUE, data |-> data, next |-> next]

NoDataResponse(next) == [ok |-> TRUE, hasData |-> FALSE, data |-> <<>>, next |-> next]

FailedResponse == [ok |-> FALSE, hasData |-> FALSE, data |-> <<>>, next |-> "none"]

NoResponse == [ok |-> TRUE, hasData |-> FALSE, data |-> <<>>, next |-> "none"]

\* the response to the i-th request of a fetch: when the script is used up the
\* request fails
ResponseAt(s, i) == IF i \in 1..Len(s) THEN s[i] ELSE FailedResponse

\* mutant: the new page is put in front of the pages fetched so far
Extend_Prepend(all, r) == IF r.hasData THEN r.data \o all ELSE all

\* "if 'data' in response: all_data.extend(response['data'])"
Extend(all, r) == IF r.hasData THEN all \o r.data ELSE all

\* mutant: the loop also stops at a page without records
HasNext_StopsAtEmptyPage(r) == r.next # "none" /\ r.data # <<>>

\* "while 'paging' in response and 'next' in response['paging']"
HasNext(r) == r.next # "none"

\* mutant: a cursor without an after= parameter is followed too
AfterParam_AnyCursor(r) == r.next # "none"

\* after_param: next_url.split('after=')[1].split('&')[0], None without 'after='
AfterParam(r) == r.next = "after"

\* mutant: the except clause returns what was fetched so far
AfterFailure_ReturnsPartial == "return"

\* lines 85-87: "except Exception: ... raise"
AfterFailure == "raised"

NoFetch ==
    /\ pc = "idle"
    /\ entity = "none"
    /\ script = <<>>
    /\ nreq = 0
    /\ response = NoResponse
    /\ allData = <<>>
    /\ trace = <<>>
    /\ fetchResult = <<>>

\* fetch_<entity>(account_id) is called; the remote API will answer with s
FetchBegin(e, s) ==
    /\ pc = "idle"
    /\ pc' = "first"
    /\ entity' = e
    /\ script' = s
    /\ nreq' = 0
    /\ response' = NoResponse
    /\ allData' = <<>>
    /\ trace' = <<>>
    /\ fetchResult' = <<>>
    /\ UNCHANGED notFetchVars

\* lines 53-57: the first request
FirstPage ==
    /\ pc = "first"
    /\ LET r == ResponseAt(script, 1) IN
        /\ nreq' = 1
        /\ trace' = Append(trace, "request")
        /\ IF r.ok
             THEN /\ response' = r
                  /\ allData' = Extend(allData, r)
                  /\ pc' = "loop"
             ELSE /\ pc' = AfterFailure
                  /\ UNCHANGED <<response, allData>>
    /\ UNCHANGED <<entity, script, fetchResult>>
    /\ UNCHANGED notFetchVars

\* line 60: the while condition is false, or lines 76-77: no after parameter
LoopExit ==
    /\ pc = "loop"
    /\ ~HasNext(response) \/ ~AfterParam(response)
    /\ pc' = "return"
    /\ UNCHANGED <<entity, script, nreq, response, allData, trace, fetchResult>>
    /\ UNCHANGED notFetchVars

\* lines 60-80: one iteration that requests the next page
LoopBody ==
    /\ pc = "loop"
    /\ HasNext(response) /\ AfterParam(response)
    /\ LET r == ResponseAt(script, nreq + 1) IN
        /\ nreq' = nreq + 1
        /\ IF ~r.ok
             THEN /\ pc' = AfterFailure
                  /\ trace' = Append(trace, "request")
                  /\ UNCHANGED <<response, allData>>
             ELSE /\ response' = r
                  /\ allData' = Extend(allData, r)
                  /\ IF r.hasData
                       THEN /\ pc' = "loop"
                            /\ trace' = trace \o <<"request", "sleep">>
                       ELSE /\ pc' = "return"
                            /\ trace' = Append(trace, "request")
    /\ UNCHANGED <<entity, script, fetchResult>>
    /\ UNCHANGED notFetchVars

\* lines 82-83 and the body of fetch_<entity>: the processed records
Return ==
    /\ pc = "return"
    /\ fetchResult' = Process(entity, allData)
    /\ pc' = "done"
    /\ UNCHANGED <<entity, script, nreq, response, allData, trace>>
    /\ UNCHANGED notFetchVars

\* lines 85-87 re-raise; fetch_<entity> catches and returns the sample records
Fallback ==
    /\ pc = "raised"
    /\ fetchResult' = Sample(entity)
    /\ pc' = "done"
    /\ UNCHANGED <<entity, script, nreq, response, allData, trace>>
    /\ UNCHANGED notFetchVars

\* the caller takes the result and the call's locals are gone
FetchEnd ==
    /\ pc = "done"
    /\ pc' = "idle"
    /\ entity' = "none"
    /\ script' = <<>>
    /\ nreq' = 0
    /\ response' = NoResponse
    /\ allData' = <<>>
    /\ trace' = <<>>
    /\ fetchResult' = <<>>
    /\ UNCHANGED notFetchVars

(***************************************************************************)
(* database.py: DatabaseManager                                            *)
(***************************************************************************)
\* _create_tables: an empty table with the declared columns
CreatedTable == [columns |-> TRUE, rows |-> <<>>]

\* json.dumps(x) and the object the driver gives back for a JSONB value
JsonDumps(x) == <<"json", x>>

JsonLoads(j) == j[2]

\* df['data'] = df['data'].apply(json.dumps): the row written for a record
StoredRow(r) == [r EXCEPT !.data = JsonDumps(r.data)]

\* df.to_dict('records'): the record read from a row
ReadRow(row) == [row EXCEPT !.data = JsonLoads(row.data)]

ToRows(records) == [i \in 1..Len(records) |-> StoredRow(records[i])]

\* df.to_sql(name, if_exists='replace'): the table is dropped and created again
\* from the DataFrame, whose columns are the keys of the records (none for [])
ReplacedTable(records) == [columns |-> records # <<>>, rows |-> ToRows(records)]

\* what a store call that raises leaves behind: nothing was written (the call
\* failed before the drop, or the transaction was rolled back), or the table was
\* dropped and created again and the insert failed
StoreOutcomes == {"ok", "unchanged", "emptied"}

\* mutant: if_exists='append', the rows are added to the table
TableAfterStore_Append(old, records, outcome) ==
    CASE outcome = "ok"        -> [columns |-> old.columns \/ records # <<>>,
                                   rows    |-> old.rows \o ToRows(records)]
      [] outcome = "unchanged" -> old
      [] outcome = "emptied"   -> [columns |-> records # <<>>, rows |-> <<>>]

TableAfterStore(old, records, outcome) ==
    CASE outcome = "ok"        -> ReplacedTable(records)
      [] outcome = "unchanged" -> old
      [] outcome = "emptied"   -> [columns |-> records # <<>>, rows |-> <<>>]

\* some row of old is not among records
DropsARow(old, records) ==
    \E i \in 1..Len(old) : \A j \in 1..Len(records) : StoredRow(records[j]) # old[i]

\* store_campaigns / store_adsets / store_ads / store_insights
Store(e, records, outcome) ==
    /\ db' = [db EXCEPT ![e] = TableAfterStore(db[e], records, outcome)]
    /\ lastStored' = [lastStored EXCEPT ![e] =
            [ok      |-> outcome = "ok",
             list    |-> IF outcome = "ok" THEN records ELSE <<>>,
             dropped |-> outcome = "ok" /\ DropsARow(db[e].rows, records)]]
    /\ got' = NoCall

\* mutant: ORDER BY <time column> ASC
SortsBefore_Ascending(a, b) == a # b /\ (a = NoTime \/ (b # NoTime /\ a < b))

\* ORDER BY <time column> DESC: NULLs first, then later times first
SortsBefore(a, b) == a # b /\ (a = NoTime \/ (b # NoTime /\ a > b))

\* the order of rows with equal keys is not specified by SQL
TieOrders == {"insertion", "reverse"}

\* for each row, the number of rows the statement returns before it
RowsBefore(rows, tie) ==
    [i \in 1..Len(rows) |->
        Cardinality({j \in 1..Len(rows) :
                        \/ SortsBefore(rows[j].time, rows[i].time)
                        \/ /\ rows[j].time = rows[i].time
                           /\ IF tie = "insertion" THEN j < i ELSE j > i})]

\* the rows, each at the place its count gives it
Arranged(rows, before) ==
    [p \in 1..Len(rows) |-> rows[CHOOSE i \in 1..Len(rows) : before[i] = p - 1]]

\* (the counts are bound once, so that they are computed once)
OrderByTimeDesc(rows, tie) ==
    CHOOSE sorted \in {Arranged(rows, before) : before \in {RowsBefore(rows, tie)}} : TRUE

\* pd.read_sql("SELECT * FROM <name> ORDER BY ... DESC") raises when the
\* database cannot be reached or the table has no such column
SelectRaises(table, available) == ~available \/ ~table.columns

\* get_campaigns / get_adsets / get_ads / get_insights: "except: return []"
GetRows(table, available, tie) ==
    IF SelectRaises(table, available) THEN <<>>
    ELSE LET rows == OrderByTimeDesc(table.rows, tie) IN
            [i \in 1..Len(rows) |-> ReadRow(rows[i])]

Get(e, available, tie) ==
    /\ got' = [entity |-> e, rows |-> GetRows(db[e], available, tie), available |-> available]
    /\ UNCHANGED <<db, lastStored>>

\* execute_query hands the whole text to the database, which runs it as the
\* statements between its semicolons
RECURSIVE Statements(_)
Statements(query) ==
    IF \A i \in 1..Len(query) : query[i] # ";" THEN <<query>>
    ELSE LET i == CHOOSE k \in 1..Len(query) :
                    query[k] = ";" /\ \A j \in 1..(k - 1) : query[j] # ";"
         IN  <<SubSeq(query, 1, i - 1)>> \o Statements(SubSeq(query, i + 1, Len(query)))

TableName(e) ==
    CASE e = "campaigns" -> <<"c", "a", "m", "p", "a", "i", "g", "n", "s">>
      [] e = "adsets"    -> <<"a", "d", "s", "e", "t", "s">>
      [] e = "ads"       -> <<"a", "d", "s">>
      [] e = "insights"  -> <<"i", "n", "s", "i", "g", "h", "t", "s">>

DeleteFromWords == <<"D", "E", "L", "E", "T", "E", " ", "F", "R", "O", "M", " ">>

CommitWord == <<"C", "O", "M", "M", "I", "T">>

\* the statement deletes every row of table e
Deletes(statement, e) ==
    LET st == Strip(statement) IN
        /\ Len(st) = Len(DeleteFromWords) + Len(TableName(e))
        /\ Upper(st) = DeleteFromWords \o Upper(TableName(e))

Commits(statement) ==
    LET st == Strip(statement) IN Len(st) = Len(CommitWord) /\ Upper(st) = CommitWord

\* the statements run in one transaction, which pd.read_sql never commits:
\* what they wrote lasts only if a COMMIT among them made it durable
RECURSIVE RunStatements(_, _, _)
RunStatements(statements, work, durable) ==
    IF statements = <<>> THEN durable
    ELSE LET st == Head(statements)
             written == IF \E e \in EntityTypes : Deletes(st, e)
                            THEN [e \in EntityTypes |->
                                    IF Deletes(st, e) THEN [work[e] EXCEPT !.rows = <<>>]
                                                      ELSE work[e]]
                            ELSE work
         IN  IF Commits(st)
                THEN RunStatements(Tail(statements), work, work)
                ELSE RunStatements(Tail(statements), written, durable)

\* DatabaseManager.execute_query: the tables after pd.read_sql(text(query))
ExecuteQuery(tables, query) == RunStatements(Statements(query), tables, tables)

(***************************************************************************)
(* gemini_query.py: GeminiQueryEngine                                      *)
(***************************************************************************)
\* _is_analytical_query: analytical_keywords
AnalyticalKeywords ==
    <<<<"r", "o", "a", "s">>,
      <<"c", "a", "c">>,
      <<"c", "p", "r">>,
      <<"c", "t", "r", " ", "t", "r", "e", "n", "d">>,
      <<"v", "s">>,
      <<"c", "o", "m", "p", "a", "r", "e", "d", " ", "t", "o">>,
      <<"c", "o", "m", "p", "a", "r", "i", "s", "o", "n">>,
      <<"b", "e", "s", "t", " ", "p", "e", "r", "f", "o", "r", "m", "i", "n", "g">>,
      <<"w", "o", "r", "s", "t", " ", "p", "e", "r", "f", "o", "r", "m", "i", "n", "g">>,
      <<"b", "u", "r", "n", "i", "n", "g", " ", "b", "u", "d", "g", "e", "t">>,
      <<"l", "o", "w", " ", "p", "e", "r", "f", "o", "r", "m", "a", "n", "c", "e">>,
      <<"d", "r", "o", "p", "s">>,
      <<"s", "p", "i", "k", "e", "s">>,
      <<"a", "n", "o", "m", "a", "l", "i", "e", "s">>,
      <<"t", "o", "p", " ", "c", "r", "e", "a", "t", "i", "v", "e", "s">>,
      <<"l", "e", "a", "r", "n", "i", "n", "g", " ", "p", "h", "a", "s", "e">>,
      <<"l", "i", "m", "i", "t", "e", "d", " ", "b", "y", " ", "b", "u", "d", "g", "e", "t">>,
      <<"a", "u", "d", "i", "e", "n", "c", "e", " ", "s", "i", "z", "e">>,
      <<"i", "m", "p", "a", "c", "t", " ", "o", "f", " ", "c", "h", "a", "n", "g", "e", "s">>,
      <<"b", "u", "d", "g", "e", "t", " ", "s", "h", "i", "f", "t", "s">>,
      <<"o", "v", "e", "r", "-", "s", "p", "e", "n", "d", "i", "n", "g">>,
      <<"u", "n", "d", "e", "r", "-", "s", "p", "e", "n", "d", "i", "n", "g">>,
      <<"u", "n", "e", "x", "p", "e", "c", "t", "e", "d", " ", "s", "p", "i", "k", "e">>,
      <<"s", "a", "m", "e", " ", "d", "a", "y", " ", "l", "a", "s", "t", " ", "w", "e", "e", "k">>,
      <<"y", "e", "s", "t", "e", "r", "d", "a", "y", " ", "v", "s", " ", "t", "o", "d", "a", "y">>,
      <<"p", "a", "s", "t", " ", "7", " ", "d", "a", "y", "s">>,
      <<"t", "r", "e", "n", "d", " ", "a", "n", "a", "l", "y", "s", "i", "s">>,
      <<"p", "e", "r", "f", "o", "r", "m", "a", "n", "c", "e", " ", "a", "n", "a", "l", "y", "s", "i", "s">>>>

\* mutant: the keywords are looked for in the question as typed
IsAnalyticalQuery_NoLower(user_query) ==
    \E i \in 1..Len(AnalyticalKeywords) : Contains(user_query, AnalyticalKeywords[i])

\* _is_analytical_query: any(keyword in query_lower for keyword in analytical_keywords)
IsAnalyticalQuery(user_query) ==
    LET query_lower == Lower(user_query) IN
    \E i \in 1..Len(AnalyticalKeywords) : Contains(query_lower, AnalyticalKeywords[i])

\* the branch process_query takes
Classify(user_query) == IF IsAnalyticalQuery(user_query) THEN "analytical" ELSE "lookup"

Fence == <<Backtick, Backtick, Backtick>>

SqlFence == <<Backtick, Backtick, Backtick, "s", "q", "l">>

\* mutant: the semicolon is appended whether or not one is there
EnsureSemicolon_Always(s) == Append(s, ";")

\* "if not response.endswith(';'): response += ';'"
EnsureSemicolon(s) == IF EndsWith(s, <<";">>) THEN s ELSE Append(s, ";")

\* _clean_sql_response
CleanSqlResponse(r) ==
    EnsureSemicolon(Strip(ReSubWithNewline(Fence, ReSubWithNewline(SqlFence, r))))

\* a DataFrame the database returns: its number of rows, and its columns in
\* order, each with its name and whether its dtype is a number
EmptyFrame == [rows |-> 0, columns |-> <<>>]

Column(name, numeric) == [name |-> name, numeric |-> numeric]

\* a text is a sequence of sentences, a sentence a sequence of strings; the
\* text of the one sentence s
Say(s) == <<<<s>>>>

\* one call to the LLM or to the database, as recorded in calls
LlmCall(op, ok) == [op |-> op, ok |-> ok, sql |-> <<>>, text |-> <<>>]

\* a narration or analysis call that returned response.text
LlmReply(op, text) == [op |-> op, ok |-> TRUE, sql |-> <<>>, text |-> text]

DbCall(sql, ok) == [op |-> "execute", ok |-> ok, sql |-> sql, text |-> <<>>]

\* mutant: the except clause tries the simpler prompt a second time
GenerateSqlQuery_RetriesTwice(hm, first, retry) ==
    IF ~hm THEN [sql |-> None, calls |-> <<>>]
    ELSE IF first.ok
        THEN [sql   |-> Some(CleanSqlResponse(first.text)),
              calls |-> <<LlmCall("generate_sql", TRUE)>>]
    ELSE IF retry.ok
        THEN [sql   |-> Some(CleanSqlResponse(retry.text)),
              calls |-> <<LlmCall("generate_sql", FALSE), LlmCall("generate_sql_retry", TRUE)>>]
    ELSE [sql   |-> None,
          calls |-> <<LlmCall("generate_sql", FALSE), LlmCall("generate_sql_retry", FALSE),
                      LlmCall("generate_sql_retry", FALSE)>>]

\* mutant: without a model the keyword-based generator supplies the statement
GenerateSqlQuery_UsesFallback(hm, first, retry) ==
    IF ~hm THEN [sql |-> Some(<<"S", "E", "L", "E", "C", "T", " ", "c", ".", "n", "a", "m", "e">>),
                 calls |-> <<>>]
    ELSE IF first.ok
        THEN [sql   |-> Some(CleanSqlResponse(first.text)),
              calls |-> <<LlmCall("generate_sql", TRUE)>>]
    ELSE IF retry.ok
        THEN [sql   |-> Some(CleanSqlResponse(retry.text)),
              calls |-> <<LlmCall("generate_sql", FALSE), LlmCall("generate_sql_retry", TRUE)>>]
    ELSE [sql   |-> None,
          calls |-> <<LlmCall("generate_sql", FALSE), LlmCall("generate_sql_retry", FALSE)>>]

\* _generate_sql_query. first, retry: what generate_content does on the first
\* call and on the call of the except clause (lines 112-119)
GenerateSqlQuery(hm, first, retry) ==
    IF ~hm THEN [sql |-> None, calls |-> <<>>]
    ELSE IF first.ok
        THEN [sql   |-> Some(CleanSqlResponse(first.text)),
              calls |-> <<LlmCall("generate_sql", TRUE)>>]
    ELSE IF retry.ok
        THEN [sql   |-> Some(CleanSqlResponse(retry.text)),
              calls |-> <<LlmCall("generate_sql", FALSE), LlmCall("generate_sql_retry", TRUE)>>]
    ELSE [sql   |-> None,
          calls |-> <<LlmCall("generate_sql", FALSE), LlmCall("generate_sql_retry", FALSE)>>]

SelectWord == <<"S", "E", "L", "E", "C", "T">>

\* mutant: SELECT may stand anywhere in the statement
SelectGuard_Contains(sql_query) == Contains(Upper(Strip(sql_query)), SelectWord)

\* mutant: only the first three characters are compared
SelectGuard_ShortPrefix(sql_query) ==
    StartsWith(Upper(Strip(sql_query)), SubSeq(SelectWord, 1, 3))

\* line 254: sql_query.strip().upper().startswith('SELECT')
SelectGuard(sql_query) == StartsWith(Upper(Strip(sql_query)), SelectWord)

\* mutant: a database error is logged and an empty frame returned
ExecuteSqlQuery_Swallows(sql_query, outcome) ==
    IF ~SelectGuard(sql_query)
        THEN [raised |-> Some("Only SELECT queries are allowed"), data |-> None, calls |-> <<>>]
    ELSE IF outcome.ok
        THEN [raised |-> None, data |-> Some(outcome.frame), calls |-> <<DbCall(sql_query, TRUE)>>]
    ELSE [raised |-> None, data |-> Some(EmptyFrame), calls |-> <<DbCall(sql_query, FALSE)>>]

\* _execute_sql_query, with DatabaseManager.execute_query: outcome is what
\* pd.read_sql does with the statement
ExecuteSqlQuery(sql_query, outcome) ==
    IF ~SelectGuard(sql_query)
        THEN [raised |-> Some("Only SELECT queries are allowed"), data |-> None, calls |-> <<>>]
    ELSE IF outcome.ok
        THEN [raised |-> None, data |-> Some(outcome.frame), calls |-> <<DbCall(sql_query, TRUE)>>]
    ELSE [raised |-> Some("database error"), data |-> None, calls |-> <<DbCall(sql_query, FALSE)>>]

\* data.select_dtypes(include=['number']).columns
NumericCols(frame) == SelectSeq(frame.columns, LAMBDA c : c.numeric)

SpendWord == <<"s", "p", "e", "n", "d">>

CtrWord == <<"c", "t", "r">>

TotalNames == {<<"i", "m", "p", "r", "e", "s", "s", "i", "o", "n", "s">>, <<"c", "l", "i", "c", "k", "s">>}

NameColumn == <<"n", "a", "m", "e">>

\* lines 331-341: the sentence _generate_fallback_insights has for a numeric
\* column, if any
ColumnSentence(col) ==
    IF Contains(Lower(col.name), SpendWord)
        THEN <<<<"Total ">> \o col.name \o <<": $, Average: $">>>>
    ELSE IF Contains(Lower(col.name), CtrWord)
        THEN <<<<"Average ">> \o col.name \o <<": %">>>>
    ELSE IF Lower(col.name) \in TotalNames
        THEN <<<<"Total ">> \o col.name \o <<": ">>>>
    ELSE <<>>

RECURSIVE ColumnSentences(_)
ColumnSentences(cols) ==
    IF cols = <<>> THEN <<>> ELSE ColumnSentence(Head(cols)) \o ColumnSentences(Tail(cols))

\* lines 343-348: "Top performers"
TopPerformerSentence(frame) ==
    IF /\ frame.rows > 1
       /\ \E i \in 1..Len(frame.columns) : frame.columns[i].name = NameColumn
       /\ NumericCols(frame) # <<>>
        THEN <<<<"Top performer by ">> \o NumericCols(frame)[1].name>>
        ELSE <<>>

\* mutant: every numeric column gets a sentence
FallbackInsights_EveryNumericColumn(frame) ==
    Say("Found records matching your query.")
        \o [i \in 1..Len(NumericCols(frame)) |->
                <<"Total ">> \o NumericCols(frame)[i].name \o <<": ">>]
        \o TopPerformerSentence(frame)

\* _generate_fallback_insights
FallbackInsights(frame) ==
    Say("Found records matching your query.")
        \o ColumnSentences(NumericCols(frame))
        \o TopPerformerSentence(frame)

\* mutant: a failed narration call is not caught
GenerateInsights_Propagates(hm, frame, outcome) ==
    IF frame.rows = 0
        THEN [raised |-> None, text |-> Say("No data found for the given query."), calls |-> <<>>]
    ELSE IF ~hm
        THEN [raised |-> None, text |-> FallbackInsights(frame), calls |-> <<>>]
    ELSE IF outcome.ok
        THEN [raised |-> None, text |-> outcome.text,
              calls |-> <<LlmReply("narrate", outcome.text)>>]
    ELSE [raised |-> Some("llm error"), text |-> <<>>, calls |-> <<LlmCall("narrate", FALSE)>>]

\* mutant: the response is returned under a heading
GenerateInsights_AddsHeading(hm, frame, outcome) ==
    IF frame.rows = 0
        THEN [raised |-> None, text |-> Say("No data found for the given query."), calls |-> <<>>]
    ELSE IF ~hm
        THEN [raised |-> None, text |-> FallbackInsights(frame), calls |-> <<>>]
    ELSE IF outcome.ok
        THEN [raised |-> None, text |-> Say("Analysis:") \o outcome.text,
              calls |-> <<LlmReply("narrate", outcome.text)>>]
    ELSE [raised |-> None, text |-> FallbackInsights(frame), calls |-> <<LlmCall("narrate", FALSE)>>]

\* _generate_insights: text is the sentences returned
GenerateInsights(hm, frame, outcome) ==
    IF frame.rows = 0
        THEN [raised |-> None, text |-> Say("No data found for the given query."), calls |-> <<>>]
    ELSE IF ~hm
        THEN [raised |-> None, text |-> FallbackInsights(frame), calls |-> <<>>]
    ELSE IF outcome.ok
        THEN [raised |-> None, text |-> outcome.text,
              calls |-> <<LlmReply("narrate", outcome.text)>>]
    ELSE [raised |-> None, text |-> FallbackInsights(frame), calls |-> <<LlmCall("narrate", FALSE)>>]

\* the three statements of _get_comprehensive_data, abridged
InsightsQuery == <<"\n", " ", "S", "E", "L", "E", "C", "T", " ", "d", "a", "t", "e", "_", "s", "t", "a", "r", "t", ",", " ", "s", "p", "e", "n", "d", " ", "F", "R", "O", "M", " ", "i", "n", "s", "i", "g", "h", "t", "s">>

CampaignsQuery == <<"\n", " ", "S", "E", "L", "E", "C", "T", " ", "C", "O", "U", "N", "T", "(", "*", ")", " ", "F", "R", "O", "M", " ", "c", "a", "m", "p", "a", "i", "g", "n", "s">>

AdsQuery == <<"\n", " ", "S", "E", "L", "E", "C", "T", " ", "C", "O", "U", "N", "T", "(", "*", ")", " ", "F", "R", "O", "M", " ", "a", "d", "s">>

NoFrames == [insights |-> EmptyFrame, campaigns_summary |-> EmptyFrame,
             ads_summary |-> EmptyFrame, summary |-> EmptyFrame]

\* _get_comprehensive_data: the three statements go to execute_query directly;
\* the first that raises ends the function with empty frames
GetComprehensiveData(o1, o2, o3) ==
    IF ~o1.ok
        THEN [data |-> NoFrames, calls |-> <<DbCall(InsightsQuery, FALSE)>>]
    ELSE IF ~o2.ok
        THEN [data |-> NoFrames,
              calls |-> <<DbCall(InsightsQuery, TRUE), DbCall(CampaignsQuery, FALSE)>>]
    ELSE IF ~o3.ok
        THEN [data |-> NoFrames,
              calls |-> <<DbCall(InsightsQuery, TRUE), DbCall(CampaignsQuery, TRUE),
                          DbCall(AdsQuery, FALSE)>>]
    ELSE [data  |-> [insights |-> o1.frame, campaigns_summary |-> o2.frame,
                     ads_summary |-> o3.frame, summary |-> o1.frame],
          calls |-> <<DbCall(InsightsQuery, TRUE), DbCall(CampaignsQuery, TRUE),
                      DbCall(AdsQuery, TRUE)>>]

\* mutant: the LLM is asked even when there are no insights rows
GenerateAnalyticalInsights_AlwaysAsks(hm, data, summary_ok, outcome) ==
    IF ~summary_ok
        THEN [text |-> Say("Error analyzing data: summary error"), calls |-> <<>>]
    ELSE IF ~hm
        THEN [text |-> Say("**Performance Summary:**"), calls |-> <<>>]
    ELSE IF outcome.ok
        THEN [text |-> outcome.text, calls |-> <<LlmReply("analyze", outcome.text)>>]
    ELSE [text |-> Say("Error analyzing data: llm error"), calls |-> <<LlmCall("analyze", FALSE)>>]

\* _generate_analytical_insights. summary_ok: _create_analytical_summary did
\* not raise (it does when formatting a NULL aggregate)
GenerateAnalyticalInsights(hm, data, summary_ok, outcome) ==
    IF data.insights.rows = 0
        THEN [text |-> Say("No recent insights data available for analysis."), calls |-> <<>>]
    ELSE IF ~summary_ok
        THEN [text |-> Say("Error analyzing data: summary error"), calls |-> <<>>]
    ELSE IF ~hm
        THEN [text |-> Say("**Performance Summary:**"), calls |-> <<>>]
    ELSE IF outcome.ok
        THEN [text |-> outcome.text, calls |-> <<LlmReply("analyze", outcome.text)>>]
    ELSE [text |-> Say("Error analyzing data: llm error"), calls |-> <<LlmCall("analyze", FALSE)>>]

AnalyticalLabel == <<"Analytical Query (No SQL Required)">>

\* the dict process_query returns, and the calls it made
ErrorResult(message, type) ==
    [returned |-> TRUE, error |-> Some(message), sql_query |-> None, data |-> None,
     insights |-> None, query_type |-> type]

\* _process_analytical_query
ProcessAnalyticalQuery(hm, o1, o2, o3, summary_ok, llm) ==
    LET all_data == GetComprehensiveData(o1, o2, o3)
        analysis == GenerateAnalyticalInsights(hm, all_data.data, summary_ok, llm)
    IN  [generated |-> None,
         result    |-> [returned |-> TRUE, error |-> None, sql_query |-> Some(AnalyticalLabel),
                        data |-> Some(all_data.data.summary), insights |-> Some(analysis.text),
                        query_type |-> Some("analytical")],
         calls     |-> all_data.calls \o analysis.calls]

\* mutant: a failed execution reports the statement that failed
ProcessLookupQuery_KeepsSql(hm, first, retry, db_outcome, llm) ==
    LET gen == GenerateSqlQuery(hm, first, retry) IN
    IF gen.sql = None \/ gen.sql = Some(<<>>)
        THEN [generated |-> gen.sql,
              result    |-> ErrorResult("Failed to generate SQL query", None),
              calls     |-> gen.calls]
    ELSE LET exec == ExecuteSqlQuery(gen.sql[1], db_outcome) IN
    IF exec.raised # None
        THEN [generated |-> gen.sql,
              result    |-> [ErrorResult(exec.raised[1], None) EXCEPT !.sql_query = gen.sql],
              calls     |-> gen.calls \o exec.calls]
    ELSE LET narration == GenerateInsights(hm, exec.data[1], llm) IN
    IF narration.raised # None
        THEN [generated |-> gen.sql,
              result    |-> ErrorResult(narration.raised[1], None),
              calls     |-> gen.calls \o exec.calls \o narration.calls]
    ELSE [generated |-> gen.sql,
          result    |-> [returned |-> TRUE, error |-> None, sql_query |-> gen.sql,
                         data |-> exec.data, insights |-> Some(narration.text),
                         query_type |-> None],
          calls     |-> gen.calls \o exec.calls \o narration.calls]

\* process_query, lines 35-66
ProcessLookupQuery(hm, first, retry, db_outcome, llm) ==
    LET gen == GenerateSqlQuery(hm, first, retry) IN
    IF gen.sql = None \/ gen.sql = Some(<<>>)
        THEN [generated |-> gen.sql,
              result    |-> ErrorResult("Failed to generate SQL query", None),
              calls     |-> gen.calls]
    ELSE LET exec == ExecuteSqlQuery(gen.sql[1], db_outcome) IN
    IF exec.raised # None
        THEN [generated |-> gen.sql,
              result    |-> ErrorResult(exec.raised[1], None),
              calls     |-> gen.calls \o exec.calls]
    ELSE LET narration == GenerateInsights(hm, exec.data[1], llm) IN
    IF narration.raised # None
        THEN [generated |-> gen.sql,
              result    |-> ErrorResult(narration.raised[1], None),
              calls     |-> gen.calls \o exec.calls \o narration.calls]
    ELSE [generated |-> gen.sql,
          result    |-> [returned |-> TRUE, error |-> None, sql_query |-> gen.sql,
                         data |-> exec.data, insights |-> Some(narration.text),
                         query_type |-> None],
          calls     |-> gen.calls \o exec.calls \o narration.calls]

NoResult ==
    [returned |-> FALSE, error |-> None, sql_query |-> None, data |-> None,
     insights |-> None, query_type |-> None]

\* no process_query call is under way or has returned
NoQuery ==
    /\ userQuery = <<>>
    /\ classified = "none"
    /\ generated = None
    /\ result = NoResult
    /\ calls = <<>>

NotCleaned == [done |-> FALSE, text |-> <<>>]

NoClean ==
    /\ responseText = <<>>
    /\ cleaned = NotCleaned

(***************************************************************************)
(* app.py: session state and the fetch action                              *)
(***************************************************************************)
\* lines 24-33: "Initialize session state"
InitialSession ==
    [data_fetched |-> FALSE, frames |-> [e \in EntityTypes |-> None]]

\* the order of the fetch_<entity> calls and of the store_<entity> calls
StoreOrder == <<"campaigns", "adsets", "ads", "insights">>

OrderOf(e) == CHOOSE k \in 1..Len(StoreOrder) : StoreOrder[k] = e

NoLists == [e \in EntityTypes |-> <<>>]

\* the button clicks of one browser session that are followed
MaxClicks == 2

\* main() has handled no user action yet; clicks counts the button clicks
NoAction ==
    [kind |-> "none", account_id |-> <<>>, api_failed |-> {}, passed |-> NoLists,
     retrieved |-> NoLists, clicks |-> 0,
     failedAt |-> 0, steps |-> <<>>, error |-> FALSE]

NoApp ==
    /\ session = InitialSession
    /\ action = NoAction

(***************************************************************************)
(* SpecStore: store and retrieval calls on the four tables                 *)
(***************************************************************************)
\* the lists of raw records behind the store calls
StoreRawLists == {<<>>, <<RawA, RawB>>, <<RawB, RawC, RawB, RawD>>}

StoreInputs(e) == {Process(e, l) : l \in StoreRawLists}

NeverStored == [ok |-> FALSE, list |-> <<>>, dropped |-> FALSE]

\* DatabaseManager.__init__
InitDb ==
    /\ db = [e \in EntityTypes |-> CreatedTable]
    /\ lastStored = [e \in EntityTypes |-> NeverStored]
    /\ got = NoCall

InitStore == InitDb /\ NoFetch /\ hasModel = TRUE /\ NoQuery /\ NoClean /\ NoApp

StoreCall ==
    /\ \E e \in EntityTypes : \E records \in StoreInputs(e) : \E outcome \in StoreOutcomes :
            Store(e, records, outcome)
    /\ UNCHANGED notStoreVars

GetCall ==
    /\ \E e \in EntityTypes : \E available \in BOOLEAN : \E tie \in TieOrders :
            Get(e, available, tie)
    /\ UNCHANGED notStoreVars

NextStore == StoreCall \/ GetCall

SpecStore == InitStore /\ [][NextStore]_vars

MaxPages == 3

PageResponses ==
    {FailedResponse,
     PageResponse(<<RawA>>, "after"),
     PageResponse(<<RawB, RawC>>, "after"),
     PageResponse(<<RawD>>, "none"),
     PageResponse(<<>>, "none"),
     PageResponse(<<RawB>>, "noafter"),
     NoDataResponse("after"),
     NoDataResponse("none")}

RECURSIVE SeqsOfLen(_, _)
SeqsOfLen(S, n) ==
    IF n = 0 THEN {<<>>} ELSE {Append(s, x) : s \in SeqsOfLen(S, n - 1), x \in S}

SeqsUpTo(S, n) == UNION {SeqsOfLen(S, k) : k \in 0..n}

Scripts == SeqsUpTo(PageResponses, MaxPages) \ {<<>>}

InitFetch == InitDb /\ NoFetch /\ hasModel = TRUE /\ NoQuery /\ NoClean /\ NoApp

FetchCall ==
    /\ pc = "idle"
    /\ \E e \in EntityTypes : \E s \in Scripts : FetchBegin(e, s)

FetchStep == FirstPage \/ LoopExit \/ LoopBody \/ Return \/ Fallback

NextFetch ==
    \/ FetchCall
    \/ FirstPage
    \/ LoopExit
    \/ LoopBody
    \/ Return
    \/ Fallback
    \/ FetchEnd

SpecFetch == InitFetch /\ [][NextFetch]_vars

\* fetch_<entity> is not abandoned half-way: the interpreter keeps executing it
FairSpecFetch == SpecFetch /\ WF_vars(FetchStep)

\* the 'data' arrays of the first n responses of s, concatenated in order
PagesData(s, n) == Flatten([i \in 1..n |-> s[i].data])

\* C2: a failed page request, the first or a later one, is the last request of
\* the fetch, and the fetch returns the sample records of its entity type, none
\* of which is a record of the pages fetched before the failure.
C2_FailedRequestGivesSample ==
    \A i \in 1..nreq :
        ~ResponseAt(script, i).ok =>
            /\ i = nreq
            /\ pc \in {"raised", "done"}
            /\ pc = "done" =>
                /\ fetchResult = Sample(entity)
                /\ \A k \in 1..Len(fetchResult) : \A j \in 1..Len(allData) :
                        /\ fetchResult[k].data # allData[j]
                        /\ fetchResult[k] # ProcessRecord(entity, allData[j], j - 1)

\* the third request failed after two pages with records had been fetched
C2_Witness ==
    /\ pc = "done"
    /\ entity = "insights"
    /\ nreq = 3
    /\ ~ResponseAt(script, 3).ok
    /\ Len(allData) = 3
    /\ fetchResult = Sample("insights")

\* every response but the last carries a continuation cursor (paging.next), the
\* last carries none
CursorChain(s) ==
    /\ s # <<>>
    /\ \A i \in 1..Len(s) : s[i].ok
    /\ \A i \in 1..(Len(s) - 1) : s[i].next # "none"
    /\ s[Len(s)].next = "none"

\* ... and every cursor is a URL with a non-empty after= parameter, and every
\* cursor-bearing response after the first has a 'data' array
FollowableChain(s) ==
    /\ CursorChain(s)
    /\ \A i \in 1..(Len(s) - 1) : s[i].next = "after"
    /\ \A i \in 2..(Len(s) - 1) : s[i].hasData

\* C3 as stated: on a cursor chain the fetch ends having issued one request
\* per scripted response.
C3_OneRequestPerResponse ==
    (pc = "done" /\ CursorChain(script)) => nreq = Len(script)

\* C3, amended: on a cursor chain whose cursors carry an after= parameter and
\* whose cursor-bearing responses after the first carry a 'data' array, the
\* fetch terminates, having issued exactly one request per scripted response.
C3_FollowableChainTerminates ==
    /\ []((pc = "done" /\ FollowableChain(script)) => nreq = Len(script))
    /\ (pc = "first" /\ FollowableChain(script)) ~> (pc = "done" /\ nreq = Len(script))

\* a chain of three pages was fetched to its end
C3_Witness ==
    /\ pc = "done"
    /\ FollowableChain(script)
    /\ Len(script) = 3
    /\ nreq = 3
    /\ ~script[1].hasData

\* C4: when every page request succeeded, the list _paginate_request returns is
\* the concatenation of the 'data' arrays of the requested pages, in the order
\* of the requests.
C4_ConcatenatesPages ==
    pc = "return" => allData = PagesData(script, nreq)

\* three pages with one, two and one records
C4_Witness ==
    /\ pc = "return"
    /\ nreq = 3
    /\ allData = <<RawA, RawB, RawC, RawD>>

(***************************************************************************)
(* SpecClassify: _is_analytical_query on one question                      *)
(***************************************************************************)
MaxQuestionLen == 3

QuestionAlphabet == {"v", "s", "V", "S", "c", "a"}

RoasTrend == <<"r", "o", "a", "s", " ", "t", "r", "e", "n", "d">>

TopFiveCampaigns == <<"t", "o", "p", " ", "5", " ", "c", "a", "m", "p", "a", "i", "g", "n", "s">>

ClassifyQuestions ==
    CaseVariants(RoasTrend) \cup CaseVariants(TopFiveCampaigns)
        \cup SeqsUpTo(QuestionAlphabet, MaxQuestionLen)

InitClassify ==
    /\ InitDb /\ NoFetch /\ NoClean /\ NoApp
    /\ hasModel = TRUE
    /\ userQuery \in ClassifyQuestions
    /\ classified = "none"
    /\ generated = None
    /\ result = NoResult
    /\ calls = <<>>

ClassifyCall ==
    /\ classified = "none"
    /\ classified' = Classify(userQuery)
    /\ UNCHANGED <<hasModel, userQuery, generated, result, calls>>
    /\ UNCHANGED notQueryVars

NextClassify == ClassifyCall

SpecClassify == InitClassify /\ [][NextClassify]_vars

\* keyword k stands in s at offset i, letter case of s aside
OccursAt(k, s, i) ==
    /\ i + Len(k) - 1 <= Len(s)
    /\ \A j \in 1..Len(k) : LowerChar(s[i + j - 1]) = k[j]

\* s is t (a lower-case text) with some of its letters in upper case
SameLetters(s, t) ==
    /\ Len(s) = Len(t)
    /\ \A i \in 1..Len(t) : LowerChar(s[i]) = t[i]

\* C7: a question is classified analytical exactly when one of the keywords
\* occurs in it as a substring, letter case aside; "ROAS trend" is analytical
\* and "top 5 campaigns" is lookup however their letters are cased.
C7_ClassifierIsKeywordSubstring ==
    classified # "none" =>
        /\ classified \in {"analytical", "lookup"}
        /\ classified = "analytical" <=>
                \E n \in 1..Len(AnalyticalKeywords) : \E i \in 1..Len(userQuery) :
                    OccursAt(AnalyticalKeywords[n], userQuery, i)
        /\ SameLetters(userQuery, RoasTrend) => classified = "analytical"
        /\ SameLetters(userQuery, TopFiveCampaigns) => classified = "lookup"

\* "ROAS Trend" was classified analytical
C7_Witness ==
    /\ classified = "analytical"
    /\ userQuery = <<"R", "O", "A", "S", " ", "T", "r", "e", "n", "d">>

(***************************************************************************)
(* SpecClean: _clean_sql_response on one LLM response                      *)
(***************************************************************************)
MaxResponseLen == 4

ResponseAlphabet == {Backtick, "\n", ";", "a", " "}

\* opening fences, with and without a language tag
FenceOpeners == {<<>>, <<Backtick, Backtick, Backtick, "s", "q", "l", "\n">>, <<Backtick, Backtick, Backtick, "\n">>, <<Backtick, Backtick, Backtick, "S", "Q", "L", "\n">>, <<Backtick, Backtick, Backtick, "p", "o", "s", "t", "g", "r", "e", "s", "q", "l", "\n">>}

FenceClosers == {<<>>, <<"\n", Backtick, Backtick, Backtick>>, <<Backtick, Backtick, Backtick, "\n">>, <<"\n", Backtick, Backtick, Backtick, "\n">>}

FencedBodies == {<<"S", "E", "L", "E", "C", "T", " ", "1">>, <<"S", "E", "L", "E", "C", "T", " ", "1", ";">>, <<" ", "S", "E", "L", "E", "C", "T", " ", "1", " ", ";", "\n">>, <<>>}

FencedResponses == {o \o b \o c : o \in FenceOpeners, b \in FencedBodies, c \in FenceClosers}

\* responses in which removing one fence brings the pieces of another together
NestedFences ==
    {<<Backtick, Backtick>> \o SqlFence \o <<Backtick>>,
     <<Backtick>> \o SqlFence \o <<"\n", Backtick, Backtick, "a">>,
     SqlFence \o <<"\n", "\n", " ", "a", " ", ";", " ">>,
     <<Backtick, Backtick, Backtick, "s">> \o SqlFence \o <<"q", "l", "\n", "a">>,
     <<Backtick, Backtick>> \o Fence \o <<"\n", Backtick, ";", ";">>}

CleanInputs == FencedResponses \cup NestedFences \cup SeqsUpTo(ResponseAlphabet, MaxResponseLen)

InitClean ==
    /\ InitDb /\ NoFetch /\ NoApp
    /\ hasModel = TRUE /\ NoQuery
    /\ responseText \in CleanInputs
    /\ cleaned = NotCleaned

CleanCall ==
    /\ ~cleaned.done
    /\ cleaned' = [done |-> TRUE, text |-> CleanSqlResponse(responseText)]
    /\ UNCHANGED responseText
    /\ UNCHANGED <<storeVars, fetchVars, queryVars, appVars>>

NextClean == CleanCall

SpecClean == InitClean /\ [][NextClean]_vars

\* C8: the cleaned text of a fenced response is the trimmed text between the
\* fences, language tag removed, with a semicolon appended only when it does
\* not already end with one; it holds no fence and no surrounding whitespace.
C8_CleanRemovesFencing ==
    cleaned.done =>
        /\ ~Contains(cleaned.text, Fence)
        /\ cleaned.text # <<>>
        /\ ~IsSpace(cleaned.text[1])
        /\ cleaned.text[Len(cleaned.text)] = ";"
        /\ \A o \in FenceOpeners : \A b \in FencedBodies : \A c \in FenceClosers :
                responseText = o \o b \o c =>
                    cleaned.text = IF EndsWith(Strip(b), <<";">>)
                                   THEN Strip(b)
                                   ELSE Strip(b) \o <<";">>

(***************************************************************************)
(* SpecQuery: process_query on one question                                *)
(***************************************************************************)
QueryQuestions ==
    {<<"R", "O", "A", "S", " ", "t", "r", "e", "n", "d">>,
     <<"S", "p", "e", "n", "d", " ", "V", "S", " ", "c", "l", "i", "c", "k", "s">>,
     <<"t", "o", "p", " ", "5", " ", "c", "a", "m", "p", "a", "i", "g", "n", "s">>,
     <<"t", "o", "t", "a", "l", " ", "s", "p", "e", "n", "d", " ", "b", "y", " ", "d", "a", "t", "e">>}

\* the texts the LLM answers a SQL prompt with: lead, first word, rest
SqlLeads == {<<>>,
     <<" ">>,
     <<Backtick, Backtick, Backtick, "s", "q", "l", "\n">>,
     <<Backtick, Backtick, Backtick, "S", "Q", "L", "\n">>}

\* SELECT as the LLM may spell it
SelectSpellings ==
    {<<"s", "e", "l", "e", "c", "t">>,
     <<"S", "E", "L", "E", "C", "T">>,
     <<"S", "e", "l", "e", "c", "t">>,
     <<"s", "E", "L", "E", "C", "T">>,
     <<"S", "e", "L", "e", "C", "t">>,
     <<"s", "e", "L", "E", "c", "t">>,
     <<"s", "e", "l", "e", "c", "T">>,
     <<"S", "E", "L", "E", "C", "t">>}

SqlWords ==
    SelectSpellings \cup
    {<<"i", "n", "s", "e", "r", "t">>,
     <<"D", "R", "O", "P">>,
     <<"S", "E", "L", "E", "C">>,
     <<"(", "S", "E", "L", "E", "C", "T">>,
     <<"-", "-", "S", "E", "L", "E", "C", "T">>,
     <<>>}

SqlTails == {<<" ", "1">>,
     <<"i", "o", "n", " ", "1">>,
     <<"_", "x">>,
     <<>>,
     <<"\n", "1", ";">>}

\* answers of several statements
SqlScripts ==
    {<<"S", "E", "L", "E", "C", "T", " ", "1", ";", " ", "d", "e", "l", "e", "t", "e", " ", "f", "r", "o", "m", " ", "a", "d", "s">>,
     <<"s", "e", "l", "e", "c", "t", " ", "1", ";", " ", "D", "E", "L", "E", "T", "E", " ", "F", "R", "O", "M", " ", "a", "d", "s", ";", " ", "C", "O", "M", "M", "I", "T", ";", " ", "S", "E", "L", "E", "C", "T", " ", "1">>,
     <<"D", "E", "L", "E", "T", "E", " ", "F", "R", "O", "M", " ", "a", "d", "s", ";", " ", "C", "O", "M", "M", "I", "T", ";", " ", "S", "E", "L", "E", "C", "T", " ", "1">>}

SqlResponses ==
    {l \o w \o t : l \in SqlLeads, w \in SqlWords, t \in SqlTails} \cup SqlScripts

\* generate_content raised (or response.text did)
LlmFailed == [ok |-> FALSE, text |-> <<>>]

SqlOutcomes == {LlmFailed} \cup {[ok |-> TRUE, text |-> t] : t \in SqlResponses}

NarrationOutcomes ==
    {LlmFailed,
     [ok |-> TRUE, text |-> Say("llm narration")],
     [ok |-> TRUE, text |-> Say("Spend rose.") \o Say("Shift budget to the best campaign.")]}

\* result sets: campaigns with budget, spend and clicks; one row of account
\* figures; clicks by date
CampaignFrame ==
    [rows |-> 2,
     columns |-> <<Column(<<"n", "a", "m", "e">>, FALSE), Column(<<"d", "a", "i", "l", "y", "_", "b", "u", "d", "g", "e", "t">>, TRUE),
                   Column(<<"T", "o", "t", "a", "l", "_", "S", "p", "e", "n", "d">>, TRUE), Column(<<"c", "l", "i", "c", "k", "s">>, TRUE)>>]

AccountFrame ==
    [rows |-> 1,
     columns |-> <<Column(<<"n", "a", "m", "e">>, FALSE), Column(<<"c", "t", "r", "_", "p", "c", "t">>, TRUE),
                   Column(<<"I", "m", "p", "r", "e", "s", "s", "i", "o", "n", "s">>, TRUE), Column(<<"r", "e", "a", "c", "h">>, TRUE)>>]

ClicksByDateFrame ==
    [rows |-> 2,
     columns |-> <<Column(<<"d", "a", "t", "e", "_", "s", "t", "a", "r", "t">>, FALSE), Column(<<"t", "o", "t", "a", "l", "_", "c", "l", "i", "c", "k", "s">>, TRUE)>>]

DbOutcomes ==
    {[ok |-> FALSE, frame |-> EmptyFrame],
     [ok |-> TRUE, frame |-> EmptyFrame],
     [ok |-> TRUE, frame |-> CampaignFrame],
     [ok |-> TRUE, frame |-> AccountFrame],
     [ok |-> TRUE, frame |-> ClicksByDateFrame]}

\* the tables a fetch has filled
StockedDb ==
    /\ db = [e \in EntityTypes |-> ReplacedTable(Process(e, <<RawA, RawB>>))]
    /\ lastStored = [e \in EntityTypes |->
                        [ok |-> TRUE, list |-> Process(e, <<RawA, RawB>>), dropped |-> FALSE]]
    /\ got = NoCall

\* the tables after the database calls of one process_query
RECURSIVE DbAfterCalls(_, _)
DbAfterCalls(tables, cs) ==
    IF cs = <<>> THEN tables
    ELSE DbAfterCalls(IF Head(cs).op = "execute" /\ Head(cs).ok
                        THEN ExecuteQuery(tables, Head(cs).sql)
                        ELSE tables,
                      Tail(cs))

\* GeminiQueryEngine.__init__
InitQuery ==
    /\ StockedDb /\ NoFetch /\ NoClean /\ NoApp
    /\ hasModel \in BOOLEAN
    /\ NoQuery

ProcessQuery ==
    /\ ~result.returned
    /\ \E user_query \in QueryQuestions :
        /\ userQuery' = user_query
        /\ classified' = Classify(user_query)
        /\ IF IsAnalyticalQuery(user_query)
            THEN \E o1 \in DbOutcomes : \E o2 \in DbOutcomes : \E o3 \in DbOutcomes :
                 \E summary_ok \in BOOLEAN : \E llm \in NarrationOutcomes :
                    LET r == ProcessAnalyticalQuery(hasModel, o1, o2, o3, summary_ok, llm) IN
                        /\ generated' = r.generated
                        /\ result' = r.result
                        /\ calls' = r.calls
                        /\ db' = DbAfterCalls(db, r.calls)
            ELSE \E first \in (IF hasModel THEN SqlOutcomes ELSE {LlmFailed}) :
                 \E retry \in (IF first.ok \/ ~hasModel THEN {LlmFailed} ELSE SqlOutcomes) :
                 \E db_outcome \in DbOutcomes : \E llm \in NarrationOutcomes :
                    LET r == ProcessLookupQuery(hasModel, first, retry, db_outcome, llm) IN
                        /\ generated' = r.generated
                        /\ result' = r.result
                        /\ calls' = r.calls
                        /\ db' = DbAfterCalls(db, r.calls)
    /\ UNCHANGED <<hasModel, lastStored, got>>
    /\ UNCHANGED <<fetchVars, cleanVars, appVars>>

NextQuery == ProcessQuery

SpecQuery == InitQuery /\ [][NextQuery]_vars

\* s, leading whitespace aside, starts with SELECT in some letter case
StartsWithSelectIgnoringCase(s) ==
    \E n \in 0..Len(s) :
        /\ \A i \in 1..n : IsSpace(s[i])
        /\ n + Len(SelectWord) <= Len(s)
        /\ \A j \in 1..Len(SelectWord) : UpperChar(s[n + j]) = SelectWord[j]

Executed(i) == calls[i].op = "execute"

\* C5: a generated statement that does not start with SELECT (letter case and
\* leading whitespace aside) makes _execute_sql_query raise: process_query
\* returns the guard's message as its error and no statement reached the
\* database.
C5_GuardRejectsNonSelect ==
    (result.returned /\ classified = "lookup" /\ generated # None
        /\ ~StartsWithSelectIgnoringCase(generated[1]))
    => /\ result.error = Some("Only SELECT queries are allowed")
       /\ \A i \in 1..Len(calls) : ~Executed(i)

\* a statement with SELECT inside it, but not at its start, was rejected
C5_Witness ==
    /\ result.returned
    /\ classified = "lookup"
    /\ generated # None
    /\ ~StartsWithSelectIgnoringCase(generated[1])
    /\ Contains(generated[1], SelectWord)
    /\ result.error # None

IsWordChar(c) ==
    IsUpperLetter(c) \/ IsLowerLetter(c)
        \/ c \in {"0", "1", "2", "3", "4", "5", "6", "7", "8", "9", "_"}

\* the first keyword of a statement: its leading run of word characters
FirstWord(s) ==
    LET t == Strip(s)
        n == CHOOSE k \in 0..Len(t) :
                /\ \A i \in 1..k : IsWordChar(t[i])
                /\ k = Len(t) \/ ~IsWordChar(t[k + 1])
    IN  SubSeq(t, 1, n)

ExecutionFailed ==
    /\ result.returned
    /\ classified = "lookup"
    /\ generated # None
    /\ \/ \E i \in 1..Len(calls) : Executed(i) /\ ~calls[i].ok
       \/ \A i \in 1..Len(calls) : ~Executed(i)

\* C9: on the lookup path a failed execution of the generated statement gives
\* a result with a non-null error and null sql_query, data and insights, and
\* no narration call is made.
C9_ExecutionFailureIsFatal ==
    ExecutionFailed =>
        /\ result.error # None
        /\ result.sql_query = None
        /\ result.data = None
        /\ result.insights = None
        /\ \A i \in 1..Len(calls) : calls[i].op # "narrate"

\* the database raised on a statement that the retry prompt had produced
C9_Witness ==
    /\ ExecutionFailed
    /\ Len(calls) = 3
    /\ calls[2].op = "generate_sql_retry"
    /\ Executed(3)
    /\ ~calls[3].ok
    /\ result.error = Some("database error")

\* C10 as stated: a failed SQL execution or LLM call gives a non-null error.
C10_EveryFailureGivesError ==
    (result.returned /\ \E i \in 1..Len(calls) : ~calls[i].ok) => result.error # None

\* C10, amended: the error is non-null exactly when, on the lookup path, SQL
\* generation yields no statement (no model, or the LLM call and its retry
\* both failed), the guard rejects the statement, or the database raises;
\* every other failure leaves the error null and insights non-null.
C10_ErrorExactlyOnLookupSqlFailure ==
    result.returned =>
        /\ result.error # None <=>
            /\ classified = "lookup"
            /\ \/ ~hasModel
               \/ \E i \in 1..Len(calls) : calls[i].op = "generate_sql_retry" /\ ~calls[i].ok
               \/ generated # None /\ ~StartsWithSelectIgnoringCase(generated[1])
               \/ \E i \in 1..Len(calls) : Executed(i) /\ ~calls[i].ok
        /\ result.error = None => result.insights # None

\* a narration call failed and the result carries fallback insights, no error
C10_Witness ==
    /\ result.returned
    /\ classified = "lookup"
    /\ \E i \in 1..Len(calls) : calls[i].op = "narrate" /\ ~calls[i].ok
    /\ result.error = None
    /\ result.insights = Some(FallbackInsights(result.data[1]))

(***************************************************************************)
(* SpecApp: the user actions of app.py on the sidebar                      *)
(***************************************************************************)
Digits == {"0", "1", "2", "3", "4", "5", "6", "7", "8", "9"}

ActPrefix == <<"a", "c", "t", "_">>

\* utils.validate_account_id: the prefix act_ followed by digits, as the error
\* message of main() describes it
ValidateAccountId(account_id) ==
    /\ StartsWith(account_id, ActPrefix)
    /\ Len(account_id) > Len(ActPrefix)
    /\ \A i \in (Len(ActPrefix) + 1)..Len(account_id) : account_id[i] \in Digits

\* mutant: the button is disabled only while the field is empty
FetchEnabled_NonEmpty(account_id) == account_id # <<>>

\* line 68: disabled = not account_id or not validate_account_id(account_id)
FetchEnabled(account_id) == account_id # <<>> /\ ValidateAccountId(account_id)

\* what the user types into the account id field
AccountIds ==
    {<<>>,
     <<"a", "c", "t", "_", "1">>,
     <<"a", "c", "t", "_", "1", "2">>,
     <<"a", "c", "t", "_">>,
     <<"a", "c", "t">>,
     <<"1">>,
     <<"a", "c", "t", "_", "1", "a">>,
     <<"A", "C", "T", "_", "1">>,
     <<" ", "a", "c", "t", "_", "1">>,
     <<"x", "a", "c", "t", "_", "1">>}

\* what _paginate_request does in a fetch_<entity> call: it returns the raw
\* records of the pages, or it raises
ApiReturned(raws) == [ok |-> TRUE, raws |-> raws]

ApiRaised == [ok |-> FALSE, raws |-> <<>>]

\* the API in the four fetch_<entity> calls of one action: it answers all, it
\* fails all, it fails the requests for the ads only
ApiOutcomes ==
    {[e \in EntityTypes |-> ApiReturned(<<RawA, RawB>>)],
     [e \in EntityTypes |-> ApiRaised],
     [e \in EntityTypes |-> IF e = "ads" THEN ApiRaised ELSE ApiReturned(<<RawB, RawC>>)]}

\* mutant: a failed fetch returns no records
FetchEntity_EmptyOnFailure(e, api) == IF api.ok THEN Process(e, api.raws) ELSE <<>>

\* fetch_<entity>: the processed records, or "except: return the sample"
FetchEntity(e, api) == IF api.ok THEN Process(e, api.raws) ELSE Sample(e)

\* what the four fetch_<entity> calls of one action return
Fetched(api) == [e \in EntityTypes |-> FetchEntity(e, api[e])]

FetchedBatches == {Fetched(api) : api \in ApiOutcomes}

\* mutant: each list is stored as soon as it has been fetched
FetchSteps_StoresAsFetched(failedAt) ==
    Flatten([k \in 1..Len(StoreOrder) |->
                <<[op |-> "fetch", entity |-> StoreOrder[k]]>>
                    \o (IF failedAt = 0 \/ k <= failedAt
                            THEN <<[op |-> "store", entity |-> StoreOrder[k]]>> ELSE <<>>)])
        \o (IF failedAt = 0 THEN <<[op |-> "session", entity |-> "all"]>> ELSE <<>>)

\* the calls of fetch_facebook_data, in order, when the failedAt-th store
\* raises (0: none does)
FetchSteps(failedAt) ==
    [k \in 1..Len(StoreOrder) |-> [op |-> "fetch", entity |-> StoreOrder[k]]]
        \o [k \in 1..(IF failedAt = 0 THEN Len(StoreOrder) ELSE failedAt) |->
                [op |-> "store", entity |-> StoreOrder[k]]]
        \o (IF failedAt = 0 THEN <<[op |-> "session", entity |-> "all"]>> ELSE <<>>)

\* mutant: a failing store undoes the stores made before it
DbAfterStores_RollsBack(old, fetched, failedAt, outcome) ==
    [e \in EntityTypes |->
        IF failedAt = 0 THEN TableAfterStore(old[e], fetched[e], "ok") ELSE old[e]]

\* lines 129-132: the four store calls, the failedAt-th of which raises
DbAfterStores(old, fetched, failedAt, outcome) ==
    [e \in EntityTypes |->
        IF failedAt = 0 \/ OrderOf(e) < failedAt
            THEN TableAfterStore(old[e], fetched[e], "ok")
        ELSE IF OrderOf(e) = failedAt
            THEN TableAfterStore(old[e], fetched[e], outcome)
        ELSE old[e]]

LastStoredAfterStores(old, fetched, failedAt) ==
    [e \in EntityTypes |->
        IF failedAt = 0 \/ OrderOf(e) < failedAt
            THEN [ok |-> TRUE, list |-> fetched[e],
                  dropped |-> DropsARow(db[e].rows, fetched[e])]
        ELSE IF OrderOf(e) = failedAt
            THEN [ok |-> FALSE, list |-> <<>>, dropped |-> FALSE]
        ELSE old[e]]

\* the lists the store calls of the action were given
PassedToStore(fetched, failedAt) ==
    [e \in EntityTypes |->
        IF failedAt = 0 \/ OrderOf(e) <= failedAt THEN fetched[e] ELSE <<>>]

\* lines 134-139: "Update session state"
SessionAfterFetch(fetched) ==
    [data_fetched |-> TRUE, frames |-> [e \in EntityTypes |-> Some(fetched[e])]]

\* mutant: the session state is updated before the stores
SessionAfterStores_UpdatesFirst(old, fetched, failedAt) == SessionAfterFetch(fetched)

\* lines 131-141: a raising store leaves the try block before the update
SessionAfterStores(old, fetched, failedAt) ==
    IF failedAt = 0 THEN SessionAfterFetch(fetched) ELSE old

\* fetch_facebook_data
FetchFacebookData(account_id, api, failedAt, outcome) ==
    LET fetched == Fetched(api) IN
    /\ db' = DbAfterStores(db, fetched, failedAt, outcome)
    /\ lastStored' = LastStoredAfterStores(lastStored, fetched, failedAt)
    /\ got' = NoCall
    /\ session' = SessionAfterStores(session, fetched, failedAt)
    /\ action' = [kind |-> "fetch", account_id |-> account_id,
                  api_failed |-> {e \in EntityTypes : ~api[e].ok},
                  retrieved |-> NoLists, clicks |-> action.clicks + 1,
                  passed |-> PassedToStore(fetched, failedAt),
                  failedAt |-> failedAt, steps |-> FetchSteps(failedAt),
                  error |-> failedAt # 0]

\* which of the four SELECTs of a load action the database answers: all of
\* them, all but the one on campaigns, all but the one on ads
Availabilities ==
    {[e \in EntityTypes |-> TRUE],
     [e \in EntityTypes |-> e # "campaigns"],
     [e \in EntityTypes |-> e # "ads"]}

\* lines 158-161: the four get_<entity> calls
Retrieved(tables, available, tie) ==
    [e \in EntityTypes |-> GetRows(tables[e], available[e], tie)]

\* mutant: the session is updated when any table returned rows
SessionAfterLoad_AnyTable(old, retrieved) ==
    IF \E e \in EntityTypes : retrieved[e] # <<>>
        THEN [data_fetched |-> TRUE, frames |-> [e \in EntityTypes |-> Some(retrieved[e])]]
        ELSE old

\* mutant: a load that finds no campaigns clears the session
SessionAfterLoad_ClearsWhenEmpty(old, retrieved) ==
    IF retrieved["campaigns"] # <<>>
        THEN [data_fetched |-> TRUE, frames |-> [e \in EntityTypes |-> Some(retrieved[e])]]
        ELSE [data_fetched |-> FALSE, frames |-> [e \in EntityTypes |-> None]]

\* lines 163-170: "if campaigns:" the four frames and data_fetched are set
SessionAfterLoad(old, retrieved) ==
    IF retrieved["campaigns"] # <<>>
        THEN [data_fetched |-> TRUE, frames |-> [e \in EntityTypes |-> Some(retrieved[e])]]
        ELSE old

\* load_existing_data
LoadExistingData(account_id, available, tie) ==
    LET retrieved == Retrieved(db, available, tie) IN
    /\ session' = SessionAfterLoad(session, retrieved)
    /\ action' = [NoAction EXCEPT !.kind = "load", !.account_id = account_id,
                                  !.retrieved = retrieved, !.clicks = action.clicks + 1]
    /\ got' = NoCall
    /\ UNCHANGED <<db, lastStored>>

\* streamlit runs the script at import, before any widget was used
InitApp == InitDb /\ NoFetch /\ hasModel = TRUE /\ NoQuery /\ NoClean /\ NoApp

\* the user types an account id: main() runs with the new text in the field
EnterAccountId ==
    /\ \E text \in AccountIds :
            action' = [NoAction EXCEPT !.kind = "input", !.account_id = text,
                                       !.clicks = action.clicks]
    /\ UNCHANGED <<session, storeVars, fetchVars, queryVars, cleanVars>>

\* the user clicks "Fetch Fresh Data", which the field's text has enabled
FetchClick ==
    /\ action.clicks < MaxClicks
    /\ FetchEnabled(action.account_id)
    /\ \E api \in ApiOutcomes :
       \E failedAt \in 0..Len(StoreOrder) :
       \E outcome \in (IF failedAt = 0 THEN {"ok"} ELSE StoreOutcomes \ {"ok"}) :
            FetchFacebookData(action.account_id, api, failedAt, outcome)
    /\ UNCHANGED <<fetchVars, queryVars, cleanVars>>

\* the user clicks "Load Existing Data"
LoadClick ==
    /\ action.clicks < MaxClicks
    /\ \E available \in Availabilities : \E tie \in TieOrders :
            LoadExistingData(action.account_id, available, tie)
    /\ UNCHANGED <<fetchVars, queryVars, cleanVars>>

NextApp == EnterAccountId \/ FetchClick \/ LoadClick

SpecApp == InitApp /\ [][NextApp]_vars

\* the rows a retrieval gets from the table are the records of the list
Holds(table, list) == SameRecords(GetRows(table, TRUE, "insertion"), list)

\* the step is a fetch action whose k-th store raised
FetchFailedAt(k) == action'.kind = "fetch" /\ action'.failedAt = k

InitCalls ==
    /\ InitDb /\ NoFetch /\ NoClean /\ NoApp
    /\ hasModel \in BOOLEAN
    /\ NoQuery

\* the interface has shown the result; the next action starts afresh
QueryEnd ==
    /\ result.returned
    /\ userQuery' = <<>>
    /\ classified' = "none"
    /\ generated' = None
    /\ result' = NoResult
    /\ calls' = <<>>
    /\ UNCHANGED hasModel
    /\ UNCHANGED notQueryVars

\* streamlit runs the script for one widget event at a time
FetchWhenIdle == ~result.returned /\ FetchCall

QueryWhenIdle == pc = "idle" /\ ProcessQuery

NextCalls ==
    \/ FetchWhenIdle
    \/ FirstPage
    \/ LoopExit
    \/ LoopBody
    \/ Return
    \/ Fallback
    \/ FetchEnd
    \/ QueryWhenIdle
    \/ QueryEnd

SpecCalls == InitCalls /\ [][NextCalls]_vars

\* what a call of process_query attempts
Operation(call) ==
    CASE call.op \in {"generate_sql", "generate_sql_retry"} -> "sql generation"
      [] call.op = "execute" -> "sql execution"
      [] call.op = "narrate" -> "narration"
      [] call.op = "analyze" -> "analysis"

\* a failed page request is the last request of its fetch
NoRequestAfterFailedRequest ==
    \A i \in 1..nreq : ~ResponseAt(script, i).ok => i = nreq

\* C12 as stated: a failed page request, SQL execution or LLM call is never
\* followed, in the same action, by another attempt at the same operation.
C12_NoRetry ==
    /\ NoRequestAfterFailedRequest
    /\ \A i \in 1..Len(calls) : \A j \in (i + 1)..Len(calls) :
            ~calls[i].ok => Operation(calls[j]) # Operation(calls[i])

\* C12, amended: a failed first SQL-generation call is followed by exactly one
\* further attempt, with the simpler prompt; no other failed call (page
\* request, SQL execution, retried SQL generation, narration, analysis) is
\* followed by another attempt at the same operation.
C12_OnlySqlGenerationRetriesOnce ==
    /\ NoRequestAfterFailedRequest
    /\ \A i \in 1..Len(calls) :
            ~calls[i].ok =>
                IF calls[i].op = "generate_sql"
                    THEN /\ i = 1
                         /\ Len(calls) >= 2
                         /\ calls[2].op = "generate_sql_retry"
                         /\ \A j \in 3..Len(calls) : Operation(calls[j]) # "sql generation"
                    ELSE \A j \in (i + 1)..Len(calls) :
                            Operation(calls[j]) # Operation(calls[i])

\* the first SQL-generation call and its one retry both failed
C12_Witness ==
    /\ result.returned
    /\ Len(calls) = 2
    /\ calls[1].op = "generate_sql" /\ ~calls[1].ok
    /\ calls[2].op = "generate_sql_retry" /\ ~calls[2].ok

\* the generated statement was executed and the database answered
ExecutedSuccessfully ==
    /\ result.returned
    /\ classified = "lookup"
    /\ \E i \in 1..Len(calls) : Executed(i) /\ calls[i].ok

\* C13 as stated: a lookup whose statement executes successfully makes one
\* SQL-generation call, then executes, then makes one narration call, and
\* returns that call's response text as the insights.
C13_GenerateExecuteNarrate ==
    ExecutedSuccessfully =>
        /\ Len(calls) = 3
        /\ calls[1].op = "generate_sql"
        /\ Executed(2)
        /\ calls[3].op = "narrate"
        /\ result.insights = Some(calls[3].text)

\* C13, amended: a lookup whose statement executes successfully makes one SQL
\* generation call, or two when the first fails, then executes the generated
\* statement, then, only if rows were returned, makes one narration call; the
\* insights are that call's response text verbatim, the fallback sentences
\* when the call fails, and a fixed sentence when no rows were returned.
C13_GenerateExecuteThenNarrateRows ==
    ExecutedSuccessfully =>
        LET x == CHOOSE i \in 1..Len(calls) : Executed(i)
            n == Len(calls)
        IN  /\ x \in {2, 3}
            /\ calls[1].op = "generate_sql"
            /\ x = 2 => calls[1].ok
            /\ x = 3 => ~calls[1].ok /\ calls[2].op = "generate_sql_retry" /\ calls[2].ok
            /\ calls[x].sql = generated[1]
            /\ IF result.data[1].rows = 0
                THEN /\ n = x
                     /\ result.insights = Some(Say("No data found for the given query."))
                ELSE /\ n = x + 1
                     /\ calls[n].op = "narrate"
                     /\ result.insights =
                            IF calls[n].ok THEN Some(calls[n].text)
                            ELSE Some(FallbackInsights(result.data[1]))

\* generation, execution with rows and a narration of two sentences, returned
\* as they were
C13_Witness ==
    /\ ExecutedSuccessfully
    /\ Len(calls) = 3
    /\ calls[3].op = "narrate"
    /\ calls[3].ok
    /\ Len(calls[3].text) = 2
    /\ result.insights = Some(calls[3].text)

FixedQueries == <<InsightsQuery, CampaignsQuery, AdsQuery>>

\* the positions of calls that are calls of the LLM
LlmCalls == {i \in 1..Len(calls) : ~Executed(i)}

\* C14 as stated: an analytical question makes no SQL-generation call; the
\* three fixed queries run in order (insights, campaigns, ads), then the LLM
\* is asked for the analysis, whose text is returned as the insights.
C14_FixedQueriesThenAnalysis ==
    (result.returned /\ classified = "analytical") =>
        /\ generated = None
        /\ Len(calls) = Len(FixedQueries) + 1
        /\ \A i \in 1..Len(FixedQueries) : Executed(i) /\ calls[i].sql = FixedQueries[i]
        /\ calls[Len(calls)].op = "analyze"
        /\ result.insights = Some(calls[Len(calls)].text)

\* C14, amended: an analytical question makes no SQL-generation call; the
\* fixed queries run in order (insights, campaigns, ads) up to the first that
\* fails; the LLM is asked for the analysis, once and last, only if all three
\* succeeded, the insights query returned rows, the summary could be built and
\* a model is configured; its text is returned as the insights when the call
\* succeeds, and a fixed, fallback or error text otherwise.
C14_FixedQueriesThenAnalysisIfData ==
    (result.returned /\ classified = "analytical") =>
        LET queries == {i \in 1..Len(calls) : Executed(i)}
            allRan  == Cardinality(queries) = Len(FixedQueries)
                        /\ \A i \in queries : calls[i].ok
            rows    == result.data[1].rows
            summary == result.insights # Some(Say("Error analyzing data: summary error"))
        IN  /\ generated = None
            /\ \A i \in LlmCalls : calls[i].op = "analyze"
            /\ queries = 1..Cardinality(queries)
            /\ Cardinality(queries) \in 1..Len(FixedQueries)
            /\ \A i \in queries :
                    /\ calls[i].sql = FixedQueries[i]
                    /\ i < Cardinality(queries) => calls[i].ok
            /\ ~calls[Cardinality(queries)].ok => LlmCalls = {}
            /\ Cardinality(LlmCalls) <= 1
            /\ LlmCalls # {} <=> (allRan /\ rows > 0 /\ summary /\ hasModel)
            /\ \A i \in LlmCalls :
                    /\ i = Len(calls)
                    /\ result.insights = IF calls[i].ok THEN Some(calls[i].text)
                                         ELSE Some(Say("Error analyzing data: llm error"))
            /\ (~allRan \/ rows = 0) =>
                    result.insights = Some(Say("No recent insights data available for analysis."))
            /\ (allRan /\ rows > 0 /\ summary /\ ~hasModel) =>
                    result.insights = Some(Say("**Performance Summary:**"))

\* three queries, then an analysis of two sentences, returned as it was
C14_Witness ==
    /\ result.returned
    /\ classified = "analytical"
    /\ Len(calls) = 4
    /\ calls[4].op = "analyze"
    /\ calls[4].ok
    /\ Len(calls[4].text) = 2
    /\ result.insights = Some(calls[4].text)

(***************************************************************************)
(* C15: the fallback narration                                             *)
(***************************************************************************)
\* a lookup returned rows and its narration call to the LLM failed
NarrationUnavailable ==
    /\ ExecutedSuccessfully
    /\ result.data # None
    /\ result.data[1].rows > 0
    /\ \E i \in 1..Len(calls) : calls[i].op = "narrate" /\ ~calls[i].ok

\* sentence s is a label followed by the name of column col
AboutColumn(s, col) ==
    /\ Len(s) \in {1 + Len(col.name), 2 + Len(col.name)}
    /\ SubSeq(s, 2, 1 + Len(col.name)) = col.name

HasWord(name, k) == \E i \in 1..Len(name) : OccursAt(k, name, i)

\* the columns of frame that are numbers, as positions
NumericPositions(frame) == {i \in 1..Len(frame.columns) : frame.columns[i].numeric}

\* the numeric columns whose name, letter case aside, contains spend or ctr
\* or is impressions or clicks
ReportedPositions(frame) ==
    {i \in NumericPositions(frame) :
        \/ HasWord(frame.columns[i].name, SpendWord)
        \/ HasWord(frame.columns[i].name, CtrWord)
        \/ \E n \in TotalNames : SameLetters(frame.columns[i].name, n)}

\* C15 as stated: when the LLM is unavailable, the narration of a non-empty
\* result set is the fallback's and has a sentence for each numeric column.
C15_SentencePerNumericColumn ==
    NarrationUnavailable =>
        LET frame == result.data[1]
            text  == result.insights[1]
        IN  \A i \in NumericPositions(frame) :
                \E j \in 1..Len(text) : AboutColumn(text[j], frame.columns[i])

\* C15, amended: when the narration call fails, the insights of a non-empty
\* result set are the fallback's: a record-count sentence, then one sentence
\* for each numeric column whose name contains spend or ctr or is impressions
\* or clicks (letter case aside), in column order, and none for any other
\* numeric column, then a top-performer sentence naming the first numeric
\* column when there are several rows, a name column and a numeric column.
C15_SentencePerReportedColumn ==
    NarrationUnavailable =>
        LET frame    == result.data[1]
            text     == result.insights[1]
            reported == ReportedPositions(frame)
            rank(i)  == Cardinality({k \in reported : k <= i})
            top      == /\ frame.rows > 1
                        /\ \E i \in 1..Len(frame.columns) : frame.columns[i].name = NameColumn
                        /\ NumericPositions(frame) # {}
            first    == CHOOSE i \in NumericPositions(frame) :
                            \A k \in NumericPositions(frame) : i <= k
        IN  /\ result.error = None
            /\ text[1] = <<"Found records matching your query.">>
            /\ Len(text) = 1 + Cardinality(reported) + (IF top THEN 1 ELSE 0)
            /\ \A i \in reported : AboutColumn(text[1 + rank(i)], frame.columns[i])
            /\ top => text[Len(text)] = <<"Top performer by ">> \o frame.columns[first].name

\* the narration of the campaigns result set failed: a count, a sentence for
\* the spend and for the clicks, none for the budget, and the top performer
C15_Witness ==
    /\ NarrationUnavailable
    /\ result.data[1] = CampaignFrame
    /\ Len(result.insights[1]) = 4

(***************************************************************************)
(* C16: what a query does to the tables                                    *)
(***************************************************************************)
\* C16: SQL execution is read-only: a query action leaves the four tables
\* unchanged, whatever text the LLM returns.
C16_QueryLeavesTablesUnchanged ==
    [][(~result.returned /\ result'.returned) => db' = db]_vars

(***************************************************************************)
(* C17, C18: the requests of one paginated fetch                           *)
(***************************************************************************)
\* _paginate_request has left its loop, or its request raised
Stopped == pc \in {"return", "raised", "done"}

\* C17 as stated: the fetch requests the next page for as long as the latest
\* response carries a continuation cursor, and stops only when a response
\* without a cursor has been received.
C17_StopsOnlyWithoutCursor == Stopped => response.next = "none"

\* response i of the script carries a cursor the loop follows: a URL with a
\* non-empty after= parameter, in a response that, unless it is the first, has
\* a 'data' array
Followed(i) ==
    /\ ResponseAt(script, i).ok
    /\ ResponseAt(script, i).next = "after"
    /\ i > 1 => ResponseAt(script, i).hasData

\* C17, amended: the fetch requests the next page for as long as the latest
\* response carries a cursor with a non-empty after= parameter and (after the
\* first page) a 'data' array; it stops when a response has no cursor, or a
\* cursor without after=, or (after the first page) no 'data' array, or when a
\* request fails.
C17_FollowsCursorsWithAfter ==
    /\ [](\A i \in 1..(nreq - 1) : Followed(i))
    /\ []((Stopped /\ nreq > 0) => ~Followed(nreq))
    /\ [](pc = "raised" => ~ResponseAt(script, nreq).ok)
    /\ \A n \in 1..MaxPages :
            (pc = "loop" /\ nreq = n /\ Followed(n)) ~> (nreq = n + 1)

\* two cursors were followed and the third response carried none
C17_Witness ==
    /\ pc = "return"
    /\ nreq = 3
    /\ Followed(1) /\ Followed(2)
    /\ response = ResponseAt(script, 3)
    /\ response.next = "none"

\* C18: within one paginated fetch the fixed delay lies between every two
\* consecutive page requests: no request directly follows the previous one.
C18_DelayBetweenRequests ==
    \A i \in 1..(Len(trace) - 1) : ~(trace[i] = "request" /\ trace[i + 1] = "request")

(***************************************************************************)
(* C19: the order of the retrieved rows                                    *)
(***************************************************************************)
\* the rows of table e as records
TableRecords(e) == [i \in 1..Len(db[e].rows) |-> ReadRow(db[e].rows[i])]

\* of two rows that both have a timestamp, the later one comes first
LaterFirst(rows) ==
    \A i \in 1..Len(rows) : \A j \in (i + 1)..Len(rows) :
        (rows[i].time # NoTime /\ rows[j].time # NoTime) => rows[i].time >= rows[j].time

PrefixedNumeric(text) ==
    \E n \in 1..Len(text) :
        /\ Len(text) = 4 + n
        /\ <<text[1], text[2], text[3], text[4]>> = <<"a", "c", "t", "_">>
        /\ \A i \in 5..(4 + n) : text[i] \in {"0", "1", "2", "3", "4", "5", "6", "7", "8", "9"}

\* C20: the fetch action starts only with an account id that is non-empty and
\* matches the prefixed-numeric pattern; while the field holds an empty or
\* invalid account id, no API request is issued and no table is stored.
C20_FetchOnlyWithValidAccountId ==
    /\ [](action.kind = "fetch" =>
            (action.account_id # <<>> /\ PrefixedNumeric(action.account_id)))
    /\ [][(action.account_id = <<>> \/ ~PrefixedNumeric(action.account_id)) =>
            /\ action'.steps = <<>>
            /\ action'.passed = NoLists
            /\ db' = db
            /\ lastStored' = lastStored]_vars

\* a fetch ran for act_12 after an invalid text had stood in the field
C20_Witness ==
    /\ action.kind = "fetch"
    /\ action.account_id = <<"a", "c", "t", "_", "1", "2">>
    /\ \E k \in 1..Len(action.steps) : action.steps[k].op = "fetch"
    /\ \E k \in 1..Len(action.steps) : action.steps[k].op = "store"

(***************************************************************************)
(* C22: the order of the steps of a fetch action                           *)
(***************************************************************************)
\* the positions of the steps of the last action that are op
StepsOf(op) == {i \in 1..Len(action.steps) : action.steps[i].op = op}

\* C22: a fetch action fetches the four entity types before its first store,
\* stores in the order campaigns, ad sets, ads, insights, and updates the
\* session-state tables and data_fetched only after all four stores succeeded.
C22_FetchStepOrder ==
    /\ [](action.kind = "fetch" =>
            /\ \A e \in EntityTypes :
                    Cardinality({i \in StepsOf("fetch") : action.steps[i].entity = e}) = 1
            /\ \A i \in StepsOf("fetch") : \A j \in StepsOf("store") : i < j
            /\ \A j \in StepsOf("store") :
                    action.steps[j].entity =
                        StoreOrder[Cardinality({i \in StepsOf("store") : i <= j})]
            /\ \A k \in StepsOf("session") :
                    /\ k = Len(action.steps)
                    /\ Cardinality(StepsOf("store")) = Len(StoreOrder)
                    /\ ~action.error
                    /\ \A e \in EntityTypes : lastStored[e].ok)
    /\ [][(action'.kind = "fetch" /\ session' # session) =>
            /\ StepsOf("session")' # {}
            /\ \A e \in EntityTypes :
                    /\ lastStored'[e].ok
                    /\ lastStored'[e].list = action'.passed[e]
                    /\ session'.frames[e] = Some(action'.passed[e])]_vars

\* a fetch whose four stores succeeded: nine steps, the session update last
C22_Witness ==
    /\ action.kind = "fetch"
    /\ Len(action.steps) = 9
    /\ action.steps[9].op = "session"
    /\ action.steps[5] = [op |-> "store", entity |-> "campaigns"]
    /\ session.data_fetched

(***************************************************************************)
(* C23: a fetch action whose API requests fail                             *)
(***************************************************************************)
\* the last action was a fetch in which the requests for entity type e failed
ApiFailedFor(e) == action.kind = "fetch" /\ e \in action.api_failed

C24_StoreFailureKeepsSession ==
    [][(action'.kind = "fetch" /\ action'.error) =>
            /\ action'.failedAt \in 1..Len(StoreOrder)
            /\ session' = session
            /\ \A e \in EntityTypes :
                    OrderOf(e) < action'.failedAt =>
                        db'[e].rows = ToRows(action'.passed[e])]_vars

\* the store of the ads failed: the session still shows the campaigns of the
\* fetch before, the database holds the new ones
C24_Witness ==
    /\ action.kind = "fetch"
    /\ action.failedAt = 3
    /\ session.data_fetched
    /\ session.frames["campaigns"] # Some(action.passed["campaigns"])
    /\ db["campaigns"].rows = ToRows(action.passed["campaigns"])
    /\ db["campaigns"].rows # <<>>

(***************************************************************************)
(* SpecIds: the synthetic ids fetch_insights gives to a list of insights   *)
(***************************************************************************)
MaxInsights == 3

\* campaign ids and dates as the API may write them: absent, plain, with
\* hyphens
CampaignIdTexts == {<<>>, <<"7">>, <<"7", "-">>, <<"-", "1">>}

DateStartTexts == {<<>>, <<"1">>, <<"1", "-", "0">>}

RawInsights ==
    {[campaign_id |-> c, date_start |-> d] : c \in CampaignIdTexts, d \in DateStartTexts}

InsightLists == SeqsUpTo(RawInsights, MaxInsights)

InitIds == InitDb /\ NoFetch /\ hasModel = TRUE /\ NoQuery /\ NoClean /\ NoApp

\* fetch_insights processes the records the API returned
AssignIds ==
    /\ pc = "idle"
    /\ \E insights \in InsightLists :
        /\ allData' = insights
        /\ fetchResult' = InsightIds(insights)
    /\ entity' = "insights"
    /\ pc' = "done"
    /\ UNCHANGED <<script, nreq, response, trace>>
    /\ UNCHANGED notFetchVars

NextIds == AssignIds

SpecIds == InitIds /\ [][NextIds]_vars

\* C25: for every list of raw insight records the synthetic ids are pairwise
\* distinct within the result, each built from the record's campaign_id, its
\* date_start and its zero-based position in the result.
C25_SyntheticIdsDistinct ==
    pc = "done" =>
        /\ Len(fetchResult) = Len(allData)
        /\ \A i \in 1..Len(fetchResult) : \A j \in 1..Len(fetchResult) :
                i # j => fetchResult[i] # fetchResult[j]
        /\ \A i \in 1..Len(fetchResult) :
                LET id   == fetchResult[i]
                    head == allData[i].campaign_id \o <<"-">> \o allData[i].date_start
                IN  /\ Len(id) = Len(head) + 2
                    /\ SubSeq(id, 1, Len(head)) = head
                    /\ id[Len(head) + 1] = "-"
                    /\ id[Len(id)] = <<"0", "1", "2", "3", "4", "5", "6", "7", "8", "9">>[i]

\* three insights of the same campaign and date, told apart by position only
C25_Witness ==
    /\ pc = "done"
    /\ Len(allData) = 3
    /\ allData[1] = allData[2] /\ allData[2] = allData[3]
    /\ allData[1].campaign_id = <<"7", "-">>
    /\ fetchResult[3] = <<"7", "-", "-", "1", "-", "0", "-", "2">>

(***************************************************************************)
(* C26: the shape of every result of process_query                         *)
(***************************************************************************)
\* C26: process_query never raises: whatever its steps do, it returns a result
\* with the keys error, sql_query, data and insights, in which error is null
\* if and only if sql_query is non-null, and if and only if data is non-null.
C26_ErrorIffNoSqlNoData ==
    /\ (userQuery # <<>> \/ calls # <<>>) => result.returned
    /\ result.returned =>
        /\ {"error", "sql_query", "data", "insights"} \subseteq DOMAIN result
        /\ result.error = None <=> result.sql_query # None
        /\ result.error = None <=> result.data # None

\* a statement was generated and sent to the database, the database raised,
\* and the result carries the error with null sql_query and data
C26_Witness ==
    /\ result.returned
    /\ generated # None
    /\ \E i \in 1..Len(calls) : Executed(i) /\ ~calls[i].ok
    /\ result.error # None
    /\ result.sql_query = None
    /\ result.data = None

(***************************************************************************)
(* C29: lookup questions without a configured LLM                          *)
(***************************************************************************)
\* C29: when no LLM is configured, a lookup question makes process_query
\* return the error 'Failed to generate SQL query' with null sql_query, data
\* and insights; no statement is generated by other means and none is
\* executed, so the tables stay as they were.
C29_NoModelLookupFails ==
    (result.returned /\ ~hasModel /\ classified = "lookup") =>
        /\ result.error = Some("Failed to generate SQL query")
        /\ result.sql_query = None
        /\ result.data = None
        /\ result.insights = None
        /\ generated = None
        /\ \A i \in 1..Len(calls) : ~Executed(i)
        /\ db = [e \in EntityTypes |-> ReplacedTable(Process(e, <<RawA, RawB>>))]

\* a lookup question was answered without a model
C29_Witness ==
    /\ result.returned
    /\ ~hasModel
    /\ classified = "lookup"
    /\ userQuery = <<"t", "o", "p", " ", "5", " ", "c", "a", "m", "p", "a", "i", "g", "n", "s">>
    /\ result.error = Some("Failed to generate SQL query")
    /\ calls = <<>>

(***************************************************************************)
(* C30: cleaning a cleaned response                                        *)
(***************************************************************************)
\* C30: SQL response cleaning is idempotent: cleaning the cleaned text of any
\* response gives that cleaned text again.
C30_CleanIsIdempotent ==
    cleaned.done => CleanSqlResponse(cleaned.text) = cleaned.text

\* a response whose tagged fence, once removed, leaves the pieces of a plain
\* fence side by side: the second substitution removes that one too
C30_Witness ==
    /\ cleaned.done
    /\ responseText = <<Backtick, Backtick>> \o SqlFence \o <<Backtick>>
    /\ cleaned.text = <<";">>
    /\ cleaned.text # responseText

(***************************************************************************)
(* C27, C28: the session state under fetch and load actions                *)
(***************************************************************************)
\* C27: data_fetched starts false, never returns to false once it is true,
\* and whenever it is true all four session tables are set (non-null).
C27_DataFetchedNeverReset ==
    /\ [](action.kind = "none" => ~session.data_fetched)
    /\ [](session.data_fetched => \A e \in EntityTypes : session.frames[e] # None)
    /\ [][session.data_fetched => session'.data_fetched]_vars

\* with data loaded, a second action ran that set nothing (a fetch whose store
\* raised, or a load that found no campaigns), and data_fetched is still true
C27_Witness ==
    /\ session.data_fetched
    /\ action.clicks = 2
    /\ \/ action.kind = "fetch" /\ action.error
       \/ action.kind = "load" /\ action.retrieved["campaigns"] = <<>>
    /\ \A e \in EntityTypes : session.frames[e] # None

\* C28: the load action retrieves the four tables (a retrieval error counts
\* as no rows). When get_campaigns returns no row, the four session tables and
\* data_fetched stay as they were, whatever the other three retrievals
\* returned; otherwise the four session tables are set to the retrieved rows
\* and data_fetched to true.
C28_LoadSetsSessionIffCampaigns ==
    [][action'.kind = "load" =>
            /\ \A e \in EntityTypes : \E tie \in TieOrders :
                    action'.retrieved[e] \in {<<>>, GetRows(db[e], TRUE, tie)}
            /\ db' = db
            /\ IF action'.retrieved["campaigns"] = <<>>
                THEN session' = session
                ELSE /\ session'.data_fetched
                     /\ \A e \in EntityTypes :
                            session'.frames[e] = Some(action'.retrieved[e])]_vars

\* a load found no campaigns (the retrieval failed) while the other three
\* tables returned rows, and the session is as the fetch before it left it
C28_Witness ==
    /\ action.kind = "load"
    /\ action.retrieved["campaigns"] = <<>>
    /\ db["campaigns"].rows # <<>>
    /\ \A e \in EntityTypes \ {"campaigns"} : action.retrieved[e] # <<>>
    /\ session.data_fetched
    /\ \E e \in EntityTypes : session.frames[e] # Some(action.retrieved[e])

====
